---- MODULE Spec2Model ----
(***************************************************************************)
(* Ledger views of griha-sajjwa-2.0: the firm-account list (FirmAccounts),  *)
(* the account statement (FirmAccountDetails) with its edit dialog         *)
(* (EditFirmTransactionDialog), and the partner statement                  *)
(* (PartnerDetails), over the tables they read and write.                  *)
(*                                                                         *)
(* One specification per view: SpecFunctions applies the balance fold and  *)
(* the label table to drawn inputs, SpecDetails runs the statement page    *)
(* and its dialog, SpecGates the same with the Edit and Delete handlers    *)
(* invoked under either setting, SpecAccounts the list page, SpecPartner   *)
(* the partner page.  An awaited call is three steps: the handler sends    *)
(* it, the store answers it (a read takes its rows then, a write takes     *)
(* effect then, and either may fail), and the code after the await runs    *)
(* with the answer.                                                        *)
(*                                                                         *)
(* Money.  A money column holds a decimal with two places; the model keeps *)
(* it as an integer count of hundredths (1000.00 is 100000).  The client   *)
(* reads such a column as a JavaScript Number, an IEEE-754 binary64, and   *)
(* every sum the code computes is a binary64 sum.  A binary64 is modelled  *)
(* exactly, as a sign and a magnitude counted in units of 2^-59 and kept   *)
(* as little-endian limbs of 24 bits.  Every binary64 of magnitude 0 or at *)
(* least 0.01 is a whole number of such units, so from there on binary64   *)
(* addition is the exact sum of the units rounded to 53 significant bits,  *)
(* ties to even.  The balance fold is also applied to decimals too large   *)
(* for a count of hundredths in 32 bits; those are given as a count and a  *)
(* power of ten.                                                           *)
(***************************************************************************)
EXTENDS Integers, Sequences, FiniteSets, Bags, TLC

(***************************************************************************)
(* Magnitudes: naturals as little-endian sequences of 24-bit limbs, with   *)
(* no leading zero limb; <<>> is 0.                                        *)
(***************************************************************************)
LimbBits == 24

LimbBase == 2^LimbBits

SigBits == 53

UnitExp == 59

Limb(n, i) == IF i >= 1 /\ i <= Len(n) THEN n[i] ELSE 0

Max2(a, b) == IF a >= b THEN a ELSE b

RECURSIVE Trim(_)
Trim(n) ==
    IF n = <<>> THEN n
    ELSE IF n[Len(n)] = 0 THEN Trim(SubSeq(n, 1, Len(n) - 1))
    ELSE n

RECURSIVE AddLimbs(_, _, _, _)
AddLimbs(a, b, i, carry) ==
    IF i > Max2(Len(a), Len(b))
    THEN (IF carry = 0 THEN <<>> ELSE <<carry>>)
    ELSE LET s == Limb(a, i) + Limb(b, i) + carry
         IN  <<s % LimbBase>> \o AddLimbs(a, b, i + 1, s \div LimbBase)

AddMag(a, b) == AddLimbs(a, b, 1, 0)

\* a - b for a >= b
RECURSIVE SubLimbs(_, _, _, _)
SubLimbs(a, b, i, borrow) ==
    IF i > Len(a) THEN <<>>
    ELSE LET d == Limb(a, i) - Limb(b, i) - borrow
         IN  IF d < 0
             THEN <<d + LimbBase>> \o SubLimbs(a, b, i + 1, 1)
             ELSE <<d>> \o SubLimbs(a, b, i + 1, 0)

SubMag(a, b) == Trim(SubLimbs(a, b, 1, 0))

\* -1, 0, 1 as a < b, a = b, a > b, comparing from limb i down
RECURSIVE CmpLimbs(_, _, _)
CmpLimbs(a, b, i) ==
    IF i = 0 THEN 0
    ELSE IF a[i] < b[i] THEN -1
    ELSE IF a[i] > b[i] THEN 1
    ELSE CmpLimbs(a, b, i - 1)

CmpMag(a, b) ==
    IF Len(a) < Len(b) THEN -1
    ELSE IF Len(a) > Len(b) THEN 1
    ELSE CmpLimbs(a, b, Len(a))

\* the number of bits of a limb x > 0
SmallBitLen(x) == CHOOSE k \in 1..LimbBits : 2^(k - 1) <= x /\ x < 2^k

BitLen(n) ==
    IF n = <<>> THEN 0
    ELSE LimbBits * (Len(n) - 1) + SmallBitLen(n[Len(n)])

\* bit i of n, bit 0 the lowest
Bit(n, i) == (Limb(n, (i \div LimbBits) + 1) \div 2^(i % LimbBits)) % 2

\* whether the d lowest bits of n are all zero
LowZero(n, d) ==
    /\ \A j \in 1..(d \div LimbBits) : Limb(n, j) = 0
    /\ Limb(n, (d \div LimbBits) + 1) % 2^(d % LimbBits) = 0

\* n with its d lowest bits cleared
Truncate(n, d) ==
    [j \in 1..Len(n) |->
        IF LimbBits * j <= d THEN 0
        ELSE IF LimbBits * (j - 1) >= d THEN n[j]
        ELSE n[j] - (n[j] % 2^(d - LimbBits * (j - 1)))]

Pow2Mag(d) ==
    [j \in 1..((d \div LimbBits) + 1) |->
        IF j = (d \div LimbBits) + 1 THEN 2^(d % LimbBits) ELSE 0]

\* n * k for a small k (k * LimbBase must stay below 2^31)
RECURSIVE MulLimbs(_, _, _, _)
MulLimbs(n, k, i, carry) ==
    IF i > Len(n)
    THEN (IF carry = 0 THEN <<>> ELSE <<carry>>)
    ELSE LET p == n[i] * k + carry
         IN  <<p % LimbBase>> \o MulLimbs(n, k, i + 1, p \div LimbBase)

MulSmall(n, k) == Trim(MulLimbs(n, k, 1, 0))

\* <<quotient limbs, remainder>> of n by a small k, from limb i down with
\* remainder rem carried in (k * LimbBase must stay below 2^31)
RECURSIVE DivLimbs(_, _, _, _)
DivLimbs(n, k, i, rem) ==
    IF i = 0 THEN <<(<<>>), rem>>
    ELSE LET cur  == rem * LimbBase + n[i]
             rest == DivLimbs(n, k, i - 1, cur % k)
         IN  <<rest[1] \o <<cur \div k>>, rest[2]>>

\* IEEE-754 round to nearest, ties to even, of the magnitude n (plus a
\* fraction of a unit that is non-zero iff sticky) to SigBits significant bits
RoundSig(n, sticky) ==
    LET len == BitLen(n)
        d   == len - SigBits
    IN  IF d <= 0 THEN n
        ELSE LET guard == Bit(n, d - 1)
                 rest  == sticky \/ ~LowZero(n, d - 1)
                 lsb   == Bit(n, d)
                 t     == Truncate(n, d)
             IN  IF guard = 1 /\ (rest \/ lsb = 1)
                 THEN AddMag(t, Pow2Mag(d))
                 ELSE t

(***************************************************************************)
(* binary64 values                                                         *)
(***************************************************************************)
Zero == [neg |-> FALSE, mag |-> <<>>]

MkDouble(neg, mag) == IF mag = <<>> THEN Zero ELSE [neg |-> neg, mag |-> mag]

NegDouble(x) == MkDouble(~x.neg, x.mag)

\* x + y in binary64
AddDouble(x, y) ==
    IF x.neg = y.neg
    THEN MkDouble(x.neg, RoundSig(AddMag(x.mag, y.mag), FALSE))
    ELSE LET c == CmpMag(x.mag, y.mag)
         IN  IF c = 0 THEN Zero
             ELSE IF c > 0
             THEN MkDouble(x.neg, RoundSig(SubMag(x.mag, y.mag), FALSE))
             ELSE MkDouble(y.neg, RoundSig(SubMag(y.mag, x.mag), FALSE))

\* x - y in binary64
SubDouble(x, y) == AddDouble(x, NegDouble(y))

AbsInt(c) == IF c < 0 THEN -c ELSE c

\* The binary64 nearest to the decimal c/100.  The quotient is taken with 24
\* extra bits (units of 2^-83), rounded, and its zero low limb dropped.
NearestDouble(c) ==
    IF c = 0 THEN Zero
    ELSE LET top == AbsInt(c) * 2^(UnitExp + LimbBits - 3 * LimbBits)
             num == <<0, 0, 0, top % LimbBase, top \div LimbBase>>
             qr  == DivLimbs(num, 100, Len(num), 0)
             q   == Trim(qr[1])
         IN  MkDouble(c < 0, Tail(RoundSig(q, qr[2] # 0)))

\* the decimals met most often, converted once
CommonDecimals == (-200..200) \cup {10000, 20000, 50000, 100000}

NearestDoubleOfCommon == [c \in CommonDecimals |-> NearestDouble(c)]

\* What the client holds after reading the money column c/100, and what
\* parseFloat gives for the text of c/100 typed into a number input with
\* step 0.01: the nearest binary64.
ParseFloat(c) ==
    IF c \in CommonDecimals THEN NearestDoubleOfCommon[c] ELSE NearestDouble(c)

\* the decimal hundredths * 10^e10 / 100 (1000000000000000.00 is 1 and 17)
Decimal(hundredths, e10) == [hundredths |-> hundredths, e10 |-> e10]

\* the magnitude of a natural k below 2^31
MagOf(k) == Trim(<<k % LimbBase, k \div LimbBase>>)

\* n * 10^e
RECURSIVE Times10(_, _)
Times10(n, e) == IF e = 0 THEN n ELSE Times10(MulSmall(n, 10), e - 1)

\* The binary64 nearest to n hundredths, n >= 1 a magnitude, negated if neg:
\* the division NearestDouble makes, on limbs throughout.
NearestDoubleOfHundredths(neg, n) ==
    IF n = <<>> THEN Zero
    ELSE LET top == MulSmall(MulSmall(n, 2^6),
                             2^(UnitExp + LimbBits - 3 * LimbBits - 6))
             num == <<0, 0, 0>> \o top
             qr  == DivLimbs(num, 100, Len(num), 0)
             q   == Trim(qr[1])
         IN  MkDouble(neg, Tail(RoundSig(q, qr[2] # 0)))


\* Number.prototype.toFixed(2): the text of the integer n nearest to
\* |x| * 100, the larger on a tie, as n/100 with two places, after a "-" when
\* x < 0 (so a negative x below 0.005 in magnitude reads "-0.00").  The text
\* is kept as its sign and n.
ToFixed2(x) ==
    LET scaled == AddMag(MulSmall(x.mag, 100), Pow2Mag(UnitExp - 1))
        hi     == SubSeq(scaled, 3, Len(scaled))
        n      == (Limb(hi, 1) \div 2^(UnitExp - 2 * LimbBits))
                    + Limb(hi, 2) * 2^(3 * LimbBits - UnitExp)
    IN  [minus |-> x.neg, hundredths |-> n]

\* the number a two-place text denotes, in hundredths
Denotes(text) == IF text.minus THEN -text.hundredths ELSE text.hundredths

(***************************************************************************)
(* Values of the program                                                   *)
(***************************************************************************)
NULL == "null"

\* the transaction types the two dialogs offer
TransactionTypes ==
    {"partner_deposit", "partner_withdrawal", "expense", "income", "adjustment"}

\* names every object literal inherits from Object.prototype
ObjectPrototypeKeys ==
    {"__defineGetter__", "__defineSetter__", "__lookupGetter__",
     "__lookupSetter__", "__proto__", "constructor", "hasOwnProperty",
     "isPrototypeOf", "propertyIsEnumerable", "toLocaleString", "toString",
     "valueOf"}

\* what a property read yields for an inherited member: a function object,
\* or Object.prototype itself for __proto__; either is truthy and is not a
\* string
InheritedMember(key) ==
    IF key = "__proto__" THEN "[Object.prototype]"
    ELSE "[Object.prototype." \o key \o "]"

getTransactionTypeLabel(type) ==
    LET labels == [partner_deposit    |-> "Partner Deposit",
                   partner_withdrawal |-> "Partner Withdrawal",
                   expense            |-> "Expense",
                   income             |-> "Income",
                   adjustment         |-> "Adjustment"]
        \* labels[type]: an own property, else one inherited, else undefined
        found  == IF type \in DOMAIN labels THEN labels[type]
                  ELSE IF type \in ObjectPrototypeKeys THEN InheritedMember(type)
                  ELSE ""
    IN  \* labels[type] || type: undefined and "" are falsy
        IF found # "" THEN found ELSE type

\* the sign the statement's amount cell puts before the amount
amountCellSign(transaction) ==
    IF transaction.transaction_type = "partner_withdrawal"
          \/ transaction.transaction_type = "expense"
    THEN "-"
    ELSE "+"

\* The rows of a select as the client holds them: money columns are Numbers.
\* txns is a sequence of [amount, transaction_type] with amount in hundredths.
AsNumbers(txns) ==
    [i \in 1..Len(txns) |->
        [amount           |-> ParseFloat(txns[i].amount),
         transaction_type |-> txns[i].transaction_type]]

\* (txns || []).reduce(..., account.opening_balance), from row i on
RECURSIVE Reduce(_, _, _)
Reduce(balance, txns, i) ==
    IF i > Len(txns) THEN balance
    ELSE LET txn == txns[i]
         IN  IF txn.transaction_type = "partner_deposit"
                  \/ txn.transaction_type = "income"
             THEN Reduce(AddDouble(balance, txn.amount), txns, i + 1)
             ELSE IF txn.transaction_type = "partner_withdrawal"
                       \/ txn.transaction_type = "expense"
             THEN Reduce(SubDouble(balance, txn.amount), txns, i + 1)
             ELSE Reduce(balance, txns, i + 1)

\* A reduce whose fall-through adds the amount (an adjustment counted as a
\* credit).
RECURSIVE ReduceCreditingOthers(_, _, _)
ReduceCreditingOthers(balance, txns, i) ==
    IF i > Len(txns) THEN balance
    ELSE LET txn == txns[i]
         IN  IF txn.transaction_type = "partner_withdrawal"
                  \/ txn.transaction_type = "expense"
             THEN ReduceCreditingOthers(SubDouble(balance, txn.amount), txns, i + 1)
             ELSE ReduceCreditingOthers(AddDouble(balance, txn.amount), txns, i + 1)

calculatedBalanceCreditingOthers(opening_balance, txns) ==
    ReduceCreditingOthers(opening_balance, txns, 1)

\* A reduce whose debit branch has its operands exchanged
\* (txn.amount - balance).
RECURSIVE ReduceDebitSwapped(_, _, _)
ReduceDebitSwapped(balance, txns, i) ==
    IF i > Len(txns) THEN balance
    ELSE LET txn == txns[i]
         IN  IF txn.transaction_type = "partner_deposit"
                  \/ txn.transaction_type = "income"
             THEN ReduceDebitSwapped(AddDouble(balance, txn.amount), txns, i + 1)
             ELSE IF txn.transaction_type = "partner_withdrawal"
                       \/ txn.transaction_type = "expense"
             THEN ReduceDebitSwapped(SubDouble(txn.amount, balance), txns, i + 1)
             ELSE ReduceDebitSwapped(balance, txns, i + 1)

calculatedBalanceDebitSwapped(opening_balance, txns) ==
    ReduceDebitSwapped(opening_balance, txns, 1)

calculatedBalance(opening_balance, txns) == Reduce(opening_balance, txns, 1)

(***************************************************************************)
(* Bounds and input sets                                                   *)
(***************************************************************************)
\* the most rows of a drawn ledger
MaxLedger == 3

\* amounts: 0.10, whose binary64 sums round in the last bit, and
\* 1000000000000000.00, next to which binary64 values are 0.125 apart
AmountSeq == <<Decimal(10, 0), Decimal(1, 17)>>

TypeSeq ==
    <<"partner_deposit", "partner_withdrawal", "expense", "income", "adjustment">>

\* 0.00, 1000.00 and 1000000000000000.00
OpeningBalances == {Decimal(0, 0), Decimal(100000, 0), Decimal(1, 17)}

\* type strings the label function is applied to
TypeStrings ==
    TransactionTypes
        \cup {"transfer", "", "constructor", "toString", "isPrototypeOf", "__proto__"}

NumKinds == Len(AmountSeq) * Len(TypeSeq)

Kind(k) ==
    [amount           |-> AmountSeq[((k - 1) % Len(AmountSeq)) + 1],
     transaction_type |-> TypeSeq[((k - 1) \div Len(AmountSeq)) + 1]]

\* every multiset of at most MaxLedger rows, each as one sequence
Ledgers ==
    UNION {{[i \in 1..n |-> Kind(s[i])] :
              s \in {t \in [1..n -> 1..NumKinds] :
                       \A i \in 1..n, j \in 1..n : i < j => t[i] <= t[j]}} :
           n \in 0..MaxLedger}

\* the ledger of the specification's scenario: 1000.00, +500, -200, -100
ScenarioOpening == 1000 * 100

ScenarioLedger ==
    <<[amount |-> 50000, transaction_type |-> "income"],
      [amount |-> 20000, transaction_type |-> "expense"],
      [amount |-> 10000, transaction_type |-> "partner_withdrawal"]>>

\* the scenario as an input of the fold
ScenarioDecimals ==
    [i \in 1..Len(ScenarioLedger) |->
        [amount           |-> Decimal(ScenarioLedger[i].amount, 0),
         transaction_type |-> ScenarioLedger[i].transaction_type]]

\* the decimals met most often, converted once
CommonBigDecimals ==
    OpeningBalances
        \cup {AmountSeq[i] : i \in 1..Len(AmountSeq)}
        \cup {ScenarioDecimals[i].amount : i \in 1..Len(ScenarioDecimals)}
        \cup {Decimal(ScenarioOpening, 0)}

HundredthsOfCommon ==
    [d \in CommonBigDecimals |-> Times10(MagOf(AbsInt(d.hundredths)), d.e10)]

\* how many hundredths the decimal d is, as a magnitude
HundredthsOf(d) ==
    IF d \in CommonBigDecimals THEN HundredthsOfCommon[d]
    ELSE Times10(MagOf(AbsInt(d.hundredths)), d.e10)

NumberOfCommon ==
    [d \in CommonBigDecimals |->
        NearestDoubleOfHundredths(d.hundredths < 0, HundredthsOfCommon[d])]

\* what the client holds after reading the money column d
ParseDecimal(d) ==
    IF d \in CommonBigDecimals THEN NumberOfCommon[d]
    ELSE NearestDoubleOfHundredths(d.hundredths < 0, HundredthsOf(d))

\* the rows of a select whose amounts are given as decimals, as the client
\* holds them
DecimalsAsNumbers(txns) ==
    [i \in 1..Len(txns) |->
        [amount           |-> ParseDecimal(txns[i].amount),
         transaction_type |-> txns[i].transaction_type]]

\* the amounts of the rows of account a2, in hundredths: 0.10, 0.20, 0.30
PettyAmounts == <<10, 20, 30>>

Orders(n) ==
    {p \in [1..n -> 1..n] : \A i \in 1..n, j \in 1..n : i # j => p[i] # p[j]}

Permuted(txns, p) == [i \in 1..Len(txns) |-> txns[p[i]]]

(***************************************************************************)
(* State                                                                   *)
(***************************************************************************)
VARIABLES
    fn,      \* functions: the function last applied, "none" before
    args,    \* functions: its arguments
    result,  \* functions: its result
    firm_accounts,         \* store: table firm_accounts, id -> row
    firm_transactions,     \* store: table firm_transactions, rows in physical order
    partners,              \* store: table partners, id -> row
    partner_transactions,  \* store: table partner_transactions, in physical order
    settings,              \* ControlContext: [allowEdit, allowDelete]
    FirmAccountDetails,         \* the statement page's route id and useState values
    EditFirmTransactionDialog,  \* the dialog's useState values
    SendMoneyDialog,       \* the send dialog's open prop and useState values
    FirmAccounts,          \* the list page's useState values
    shown,                 \* the balances the last two completed refreshes of the list showed
    PartnerDetails,        \* the partner page's route id and useState values
    page,                  \* router: the page that is rendered
    channels,              \* realtime: the channels that are subscribed
    admission_enquiry,     \* store: table admission_enquiry, rows in physical order
    AdmissionEnquiry,      \* the enquiries page's useState values and effects due
    calls,   \* data-store calls and change notifications in flight
    log,     \* what the last step told the user: toasts, confirm()
    writes   \* how many writes and navigations have happened

storeVars == <<firm_accounts, firm_transactions, partners, partner_transactions>>

pageVars == <<settings, FirmAccountDetails, EditFirmTransactionDialog>>

listVars == <<FirmAccounts, shown>>

enquiryVars == <<admission_enquiry, AdmissionEnquiry>>

\* what the statement page and its dialog leave alone, the store apart
offStatement == <<fn, args, result, FirmAccounts, shown, PartnerDetails, page,
                  channels, SendMoneyDialog, enquiryVars>>

\* what the list page leaves alone, the store apart
offList == <<fn, args, result, settings, FirmAccountDetails,
             EditFirmTransactionDialog, PartnerDetails, page, channels,
             SendMoneyDialog, enquiryVars>>

\* what the partner page leaves alone, the store apart
offPartner == <<fn, args, result, settings, FirmAccountDetails,
                EditFirmTransactionDialog, FirmAccounts, shown, page, channels,
                SendMoneyDialog, enquiryVars>>

vars == <<fn, args, result, firm_accounts, firm_transactions, partners,
          partner_transactions, settings, FirmAccountDetails,
          EditFirmTransactionDialog, FirmAccounts, shown, PartnerDetails,
          page, channels, SendMoneyDialog, calls, log, writes,
          enquiryVars>>

\* an optional value: null, or the value
None == <<>>

Some(v) == <<v>>

(***************************************************************************)
(* The functions applied to drawn inputs.  The per-account select of       *)
(* fetchAccounts has no order clause: its rows may reach the reduce in any *)
(* order.                                                                  *)
(***************************************************************************)
FoldInput(opening_balance, txns) ==
    [for |-> "calculatedBalance", opening_balance |-> opening_balance,
     txns |-> txns, order |-> <<>>, type |-> ""]

LabelInput(type) ==
    [for |-> "getTransactionTypeLabel", opening_balance |-> Decimal(0, 0),
     txns |-> <<>>, order |-> <<>>, type |-> type]

\* one row of the statement, for its amount cell
CellInput(txn) ==
    [for |-> "amountCell", opening_balance |-> Decimal(0, 0),
     txns |-> <<txn>>, order |-> <<>>, type |-> txn.transaction_type]

\* fetchAccounts' computation for one account, whose rows come back in some
\* order p
Fold ==
    /\ fn = "none"
    /\ args.for = "calculatedBalance"
    /\ \E p \in Orders(Len(args.txns)) :
          /\ fn' = "calculatedBalance"
          /\ args' = [args EXCEPT !.order = p]
          /\ result' = [balance |-> calculatedBalance(
                                        ParseDecimal(args.opening_balance),
                                        DecimalsAsNumbers(Permuted(args.txns, p))),
                        label   |-> ""]
    /\ UNCHANGED <<storeVars, pageVars, listVars, PartnerDetails, page, enquiryVars,
                   channels, SendMoneyDialog, calls, log, writes>>

Label ==
    /\ fn = "none"
    /\ args.for = "getTransactionTypeLabel"
    /\ fn' = "getTransactionTypeLabel"
    /\ args' = args
    /\ result' = [balance |-> Zero, label |-> getTransactionTypeLabel(args.type)]
    /\ UNCHANGED <<storeVars, pageVars, listVars, PartnerDetails, page, enquiryVars,
                   channels, SendMoneyDialog, calls, log, writes>>

\* the amount cell of one row of the statement is rendered
AmountCell ==
    /\ fn = "none"
    /\ args.for = "amountCell"
    /\ fn' = "amountCell"
    /\ args' = args
    /\ result' = [balance |-> Zero, label |-> amountCellSign(args.txns[1])]
    /\ UNCHANGED <<storeVars, pageVars, listVars, PartnerDetails, page, enquiryVars,
                   channels, SendMoneyDialog, calls, log, writes>>

NextFunctions == Fold \/ Label \/ AmountCell

(***************************************************************************)
(* The data store                                                          *)
(***************************************************************************)
\* the most write handlers a behaviour runs
MaxWrites == 1

AccountIds == {"a1", "a2"}

\* a row of firm_accounts as the client holds it
AccountAsRead(row) ==
    [row EXCEPT !.opening_balance = ParseFloat(row.opening_balance),
                !.current_balance = ParseFloat(row.current_balance)]

\* a row with a money column amount as the client holds it
TransactionAsRead(row) == [row EXCEPT !.amount = ParseFloat(row.amount)]

AllAsRead(rows) == [i \in 1..Len(rows) |-> TransactionAsRead(rows[i])]

\* .order(column, { ascending: false }) on rows given with their sort keys:
\* whether key a sorts before key b
RECURSIVE KeyBefore(_, _)
KeyBefore(a, b) ==
    /\ a # <<>>
    /\ \/ Head(a) > Head(b)
       \/ Head(a) = Head(b) /\ KeyBefore(Tail(a), Tail(b))

\* the orders in which the store may return the rows: no row comes after one
\* that sorts after it, and rows that compare equal come in any order
OrderKeyed(items) ==
    {Permuted(items, p) :
        p \in {q \in Orders(Len(items)) :
                  \A i \in 1..Len(items), j \in 1..Len(items) :
                      i < j => ~KeyBefore(items[q[j]].key, items[q[i]].key)}}

RowsOf(items) == [i \in 1..Len(items) |-> items[i].row]

\* the rows of firm_transactions that belong to account id, as stored
LedgerOf(id) ==
    LET Owned(row) == row.firm_account_id = id
    IN  SelectSeq(firm_transactions, Owned)

\* from('firm_transactions').select('*').eq('firm_account_id', id)
\*   .order('transaction_date', desc).order('created_at', desc)
SelectStatement(id) ==
    LET rows == LedgerOf(id)
    IN  {AllAsRead(RowsOf(ordered)) :
            ordered \in OrderKeyed(
                [i \in 1..Len(rows) |->
                    [key |-> <<rows[i].transaction_date, rows[i].created_at>>,
                     row |-> rows[i]]])}

\* from('firm_transactions').delete().eq('id', txn)
DeleteTransaction(txn) ==
    LET Kept(row) == row.id # txn IN SelectSeq(firm_transactions, Kept)

\* from('firm_transactions').update(body).eq('id', txn)
UpdateTransaction(txn, body) ==
    [i \in 1..Len(firm_transactions) |->
        IF firm_transactions[i].id = txn
        THEN [firm_transactions[i] EXCEPT
                 !.transaction_type = body.transaction_type,
                 !.amount           = body.amount,
                 !.description      = body.description,
                 !.transaction_date = body.transaction_date]
        ELSE firm_transactions[i]]

\* The text JSON.stringify writes for a Number x, as the decimal it denotes
\* in hundredths: the shortest text that reads back as x, which for the
\* binary64 nearest to a two-place decimal is that decimal.
NumberToDecimal(x) == Denotes(ToFixed2(x))

(***************************************************************************)
(* Calls in flight.  A call is sent by a handler, served by the store at   *)
(* some later moment (a read takes its rows then, a write takes effect     *)
(* then; either may fail), and its answer is delivered to the code after   *)
(* the await at some moment after that.  id is the route id the calling    *)
(* render had.                                                             *)
(***************************************************************************)
\* a call as sent; from is the visit in which the code that sent it was
\* rendered (the pages are visited in turn, and FirmAccounts.mounts counts
\* the visits of the list page), whose setters the code that awaits the
\* answer holds
Call(op, id, txn, body) ==
    [op |-> op, id |-> id, txn |-> txn, body |-> body,
     stage |-> "sent", error |-> FALSE, data |-> <<>>,
     from |-> FirmAccounts.mounts]

\* the calls cs as sent by the code that awaited c
Following(c, cs) == {[n EXCEPT !.from = c.from] : n \in cs}

\* the component that sent c is still the one rendered
Mounted(c, rendered) == page = rendered /\ c.from = FirmAccounts.mounts

FetchAccountDetailsCall(id) == Call("fetchAccountDetails", id, 0, <<>>)

FetchTransactionsCall(id) == Call("fetchTransactions", id, 0, <<>>)

\* calls with the calls of cs sent
Sent(inFlight, cs) == inFlight (+) SetToBag(cs)

\* calls without c
Taken(c) == calls (-) SetToBag({c})

Answered(c, error, data) ==
    [c EXCEPT !.stage = "done", !.error = error, !.data = data]

(***************************************************************************)
(* FirmAccountDetails                                                      *)
(***************************************************************************)
\* the ledger of the scenario on account a1, whose stored current_balance
\* agrees with it; three small credits on account a2
InitialAccounts ==
    [a \in AccountIds |->
        IF a = "a1"
        THEN [id |-> a, account_name |-> "Main", created_at |-> 1,
              opening_balance |-> ScenarioOpening, current_balance |-> 120000,
              is_active |-> TRUE]
        ELSE [id |-> a, account_name |-> "Petty", created_at |-> 2,
              opening_balance |-> 0, current_balance |-> 60,
              is_active |-> TRUE]]

InitialTransactions ==
    [i \in 1..(Len(ScenarioLedger) + Len(PettyAmounts)) |->
        IF i <= Len(ScenarioLedger)
        THEN [id               |-> i,
              firm_account_id  |-> "a1",
              partner_id       |-> IF i = 3 THEN "p1" ELSE NULL,
              transaction_type |-> ScenarioLedger[i].transaction_type,
              amount           |-> ScenarioLedger[i].amount,
              description      |-> IF i = 2 THEN "rent" ELSE NULL,
              transaction_date |-> i,
              created_at       |-> i]
        ELSE [id               |-> i,
              firm_account_id  |-> "a2",
              partner_id       |-> NULL,
              transaction_type |-> "income",
              amount           |-> PettyAmounts[i - Len(ScenarioLedger)],
              description      |-> NULL,
              transaction_date |-> i,
              created_at       |-> i]]

PartnerIds == {"p1", "p2"}

InitialPartners == [p \in PartnerIds |-> [id |-> p, name |-> "partner " \o p]]

\* route ids the statement page is opened with: an account with the scenario's
\* ledger, another account, and an id no row has
RouteIds == {"a1", "a2", "a0"}

EmptyForm ==
    [transaction_type |-> "", amount |-> <<>>, description |-> "",
     transaction_date |-> <<>>]

\* the day new Date() gives, a day of January 2024
Today == 20 + 0

\* the send dialog's initial formData
SendForm ==
    [recipient_type |-> "partner", recipient_id |-> "",
     transaction_type |-> "partner_deposit", amount |-> <<>>,
     transaction_date |-> <<Today>>, description |-> ""]

\* the send dialog as constructed, closed
SendMoneyConstructed ==
    [open |-> FALSE, loading |-> FALSE, partners |-> <<>>, mahajans |-> <<>>,
     formData |-> SendForm]

\* no function applied, none to apply
InitFunctionsIdle ==
    /\ fn = "idle"
    /\ args = LabelInput("")
    /\ result = [balance |-> Zero, label |-> ""]

InitStore ==
    /\ firm_accounts = InitialAccounts
    /\ firm_transactions = InitialTransactions
    /\ partners = InitialPartners
    /\ partner_transactions = <<>>

\* the statement page as constructed for a route id
FirmAccountDetailsConstructed(id) ==
    [id |-> id, effectRanFor |-> None, account |-> None,
     transactions |-> <<>>, loading |-> TRUE, editDialogOpen |-> FALSE,
     selectedTransaction |-> None]

EditFirmTransactionDialogConstructed == [formData |-> EmptyForm, loading |-> FALSE]

InitPages(ids, permissions) ==
    /\ settings \in permissions
    /\ FirmAccountDetails \in {FirmAccountDetailsConstructed(id) : id \in ids}
    /\ EditFirmTransactionDialog = EditFirmTransactionDialogConstructed
    /\ SendMoneyDialog = SendMoneyConstructed

Permissions == [allowEdit : BOOLEAN, allowDelete : BOOLEAN]

AllAllowed == {[allowEdit |-> TRUE, allowDelete |-> TRUE]}

\* the most times the list page is opened
MaxMounts == 2

\* the list page as constructed
FirmAccountsConstructed(mounts) ==
    [accounts |-> <<>>, loading |-> TRUE, effectRan |-> FALSE, mounts |-> mounts]

InitList ==
    /\ FirmAccounts = FirmAccountsConstructed(1)
    /\ shown = <<>>

\* the user of the session (useAuth)
user == [id |-> "u1"]

\* rows of admission_enquiry, texts as their characters, columns that may be
\* null as optional values: three enquiries of the user and one of another
InitialEnquiries ==
    <<[id |-> 1, user_id |-> "u1", child_name |-> Some(<<"A", "b">>),
       parents_name |-> Some(<<"B", "a">>), mobile_no |-> Some(<<"9", "8">>),
       status |-> "pending", created_at |-> 1],
      [id |-> 2, user_id |-> "u1", child_name |-> Some(<<"b", "b">>),
       parents_name |-> None, mobile_no |-> Some(<<"8", "9">>),
       status |-> "admitted", created_at |-> 2],
      [id |-> 3, user_id |-> "u2", child_name |-> Some(<<"a">>),
       parents_name |-> Some(<<"a">>), mobile_no |-> Some(<<"9">>),
       status |-> "pending", created_at |-> 3],
      [id |-> 4, user_id |-> "u1", child_name |-> Some(<<"a", "9">>),
       parents_name |-> Some(<<"b">>), mobile_no |-> None,
       status |-> "pending", created_at |-> 4]>>

\* the enquiries page after its first render: both effects are due
AdmissionEnquiryConstructed ==
    [enquiries |-> <<>>, filteredEnquiries |-> <<>>, loading |-> TRUE,
     searchTerm |-> <<>>, statusFilter |-> "all", deleteEnquiryId |-> None,
     effectsDue |-> {"fetchEnquiries", "filter"}]

InitEnquiries ==
    /\ admission_enquiry = InitialEnquiries
    /\ AdmissionEnquiry = AdmissionEnquiryConstructed

\* the partner page as constructed for a route id
InitPartner(ids) ==
    PartnerDetails \in
        {[id |-> id, effectRanFor |-> None, partner |-> None,
          transactions |-> <<>>, loading |-> TRUE] : id \in ids}

\* the page the router renders; nothing subscribed, nothing in flight, nothing
\* said, nothing written
InitCalls(rendered) ==
    /\ page = rendered
    /\ channels = {}
    /\ calls = EmptyBag
    /\ log = <<>>
    /\ writes = 0

InitFunctions ==
    /\ fn = "none"
    /\ args \in {FoldInput(b, t) : b \in OpeningBalances, t \in Ledgers}
                 \cup {FoldInput(Decimal(ScenarioOpening, 0), ScenarioDecimals)}
                 \cup {LabelInput(type) : type \in TypeStrings}
                 \cup {CellInput([amount |-> AmountSeq[i], transaction_type |-> type]) :
                          i \in 1..Len(AmountSeq), type \in TypeStrings}
    /\ result = [balance |-> Zero, label |-> ""]

(***************************************************************************)
(* Changes to the store that no handler of these pages makes, and the       *)
(* partner page's realtime channels.  A change to a table is pushed to      *)
(* every channel subscribed to the table whose filter the row matches; the  *)
(* push is in flight until the channel's callback runs.                     *)
(***************************************************************************)
\* the rows a session writes: a payment of partner p1, and a deposit of
\* partner p1 into account a1, both dated 2024-01-15
InsertedPayment ==
    [id |-> 1000 + writes, partner_id |-> "p1", amount |-> 2500,
     payment_date |-> 15, payment_mode |-> "cash", notes |-> NULL,
     mahajan_id |-> NULL, mahajans |-> None, created_at |-> 1000 + writes]

InsertedDeposit ==
    [id               |-> 1000 + writes,
     firm_account_id  |-> "a1",
     partner_id       |-> "p1",
     transaction_type |-> "partner_deposit",
     amount           |-> 2500,
     description      |-> NULL,
     transaction_date |-> 15,
     created_at       |-> 1000 + writes]

Push(table, row) ==
    {[Call("postgres_changes", ch.filter, row.id, <<table>>)
         EXCEPT !.stage = "pushed"] :
        ch \in {ch \in channels : ch.table = table /\ ch.filter = row.partner_id}}

\* the detail view is rendered: neither 'Loading...' nor 'Partner not found'
PartnerRendered ==
    /\ page = "PartnerDetails"
    /\ ~PartnerDetails.loading
    /\ PartnerDetails.partner # None

\* the insert of RecordPartnerPaymentDialog, answered, its onPaymentAdded
\* still to be called
PaymentAdded(row) ==
    [Call("onPaymentAdded", PartnerDetails.id, row.id, <<>>)
        EXCEPT !.stage = "done"]

\* a session inserts a row: another session, or (own) the payment dialog of
\* the rendered partner page, for the partner the page shows, which the user
\* goes for when the page is at rest
RowInserted ==
    /\ writes < MaxWrites
    /\ \/ \E own \in BOOLEAN :
            /\ own => /\ PartnerRendered
                      /\ PartnerDetails.partner[1].id = InsertedPayment.partner_id
                      /\ calls = EmptyBag
            /\ partner_transactions' =
                  Append(partner_transactions, InsertedPayment)
            /\ calls' = Sent(calls,
                  Push("partner_transactions", InsertedPayment)
                  \cup (IF own THEN {PaymentAdded(InsertedPayment)} ELSE {}))
            /\ UNCHANGED firm_transactions
       \/ /\ firm_transactions' = Append(firm_transactions, InsertedDeposit)
          /\ calls' = Sent(calls, Push("firm_transactions", InsertedDeposit))
          /\ UNCHANGED partner_transactions
    /\ writes' = writes + 1
    /\ log' = <<>>
    /\ UNCHANGED <<fn, args, result, firm_accounts, partners, pageVars, listVars,
                   enquiryVars,
                   PartnerDetails, page, channels, SendMoneyDialog>>

\* useEffect(..., [id]): after the first render, and after a render with
\* another id, both loads are started
MountEffect ==
    /\ page = "FirmAccountDetails"
    /\ FirmAccountDetails.effectRanFor # Some(FirmAccountDetails.id)
    /\ FirmAccountDetails' =
          [FirmAccountDetails EXCEPT !.effectRanFor = Some(FirmAccountDetails.id)]
    /\ calls' = Sent(calls, {FetchAccountDetailsCall(FirmAccountDetails.id),
                            FetchTransactionsCall(FirmAccountDetails.id)})
    /\ log' = <<>>
    /\ UNCHANGED <<offStatement, storeVars, settings, EditFirmTransactionDialog,
                   writes>>

\* the store answers fetchAccountDetails: .single() is an error unless
\* exactly one row matches
ServeFetchAccountDetails(c, fails) ==
    /\ c.op = "fetchAccountDetails"
    /\ calls' = Sent(Taken(c),
          {IF fails \/ c.id \notin DOMAIN firm_accounts
           THEN Answered(c, TRUE, <<>>)
           ELSE Answered(c, FALSE, <<AccountAsRead(firm_accounts[c.id])>>)})
    /\ UNCHANGED storeVars

ServeFetchTransactions(c, fails) ==
    /\ c.op = "fetchTransactions"
    /\ \E rows \in SelectStatement(c.id) :
          calls' = Sent(Taken(c),
              {IF fails THEN Answered(c, TRUE, <<>>)
               ELSE Answered(c, FALSE, rows)})
    /\ UNCHANGED storeVars

ServeDelete(c, fails) ==
    /\ c.op = "delete"
    /\ calls' = Sent(Taken(c), {Answered(c, fails, <<>>)})
    /\ firm_transactions' =
          IF fails THEN firm_transactions ELSE DeleteTransaction(c.txn)
    /\ UNCHANGED <<firm_accounts, partners, partner_transactions>>

ServeUpdate(c, fails) ==
    /\ c.op = "update"
    /\ calls' = Sent(Taken(c), {Answered(c, fails, <<>>)})
    /\ firm_transactions' =
          IF fails THEN firm_transactions ELSE UpdateTransaction(c.txn, c.body[1])
    /\ UNCHANGED <<firm_accounts, partners, partner_transactions>>

\* the store handles one call that was sent
Serve ==
    \E c \in BagToSet(calls), fails \in BOOLEAN :
        /\ c.stage = "sent"
        /\ \/ ServeFetchAccountDetails(c, fails)
           \/ ServeFetchTransactions(c, fails)
           \/ ServeDelete(c, fails)
           \/ ServeUpdate(c, fails)
        /\ log' = <<>>
        /\ UNCHANGED <<offStatement, pageVars, writes>>

\* the statement page's state after a setter called by the code that awaited
\* c: a setter of a page that is no longer rendered does nothing
SetFirmAccountDetails(c, updated) ==
    IF Mounted(c, "FirmAccountDetails") THEN updated ELSE FirmAccountDetails

\* fetchAccountDetails after its await
DeliverFetchAccountDetails(c) ==
    /\ c.op = "fetchAccountDetails"
    /\ calls' = Taken(c)
    /\ IF c.error
       THEN /\ log' = <<"toast.error: Failed to load account details">>
            /\ FirmAccountDetails' = SetFirmAccountDetails(c,
                  [FirmAccountDetails EXCEPT !.loading = FALSE])
       ELSE /\ log' = <<>>
            /\ FirmAccountDetails' = SetFirmAccountDetails(c,
                  [FirmAccountDetails EXCEPT !.account = c.data,
                                             !.loading = FALSE])
    /\ UNCHANGED <<EditFirmTransactionDialog, writes>>

\* fetchTransactions after its await
DeliverFetchTransactions(c) ==
    /\ c.op = "fetchTransactions"
    /\ calls' = Taken(c)
    /\ IF c.error
       THEN /\ log' = <<"toast.error: Failed to load transactions">>
            /\ UNCHANGED FirmAccountDetails
       ELSE /\ log' = <<>>
            /\ FirmAccountDetails' = SetFirmAccountDetails(c,
                  [FirmAccountDetails EXCEPT !.transactions = c.data])
    /\ UNCHANGED <<EditFirmTransactionDialog, writes>>

\* handleDeleteTransaction after its await, were it to refetch in its catch
\* block too
DeliverDeleteRefetching(c) ==
    /\ c.op = "delete"
    /\ log' = IF c.error THEN <<"toast.error: Failed to delete transaction">>
              ELSE <<"toast.success: Transaction deleted">>
    /\ calls' = Sent(Taken(c), Following(c, {FetchTransactionsCall(c.id),
                                             FetchAccountDetailsCall(c.id)}))
    /\ UNCHANGED <<FirmAccountDetails, EditFirmTransactionDialog, writes>>

\* handleDeleteTransaction after its await
DeliverDelete(c) ==
    /\ c.op = "delete"
    /\ IF c.error
       THEN /\ log' = <<"toast.error: Failed to delete transaction">>
            /\ calls' = Taken(c)
       ELSE /\ log' = <<"toast.success: Transaction deleted">>
            /\ calls' = Sent(Taken(c),
                  Following(c, {FetchTransactionsCall(c.id),
                                FetchAccountDetailsCall(c.id)}))
    /\ UNCHANGED <<FirmAccountDetails, EditFirmTransactionDialog, writes>>

\* the dialog's handleSubmit after its await: on success
\* onTransactionUpdated() (the page's handleTransactionUpdated) and
\* onOpenChange(false); setLoading(false) in either case
DeliverUpdate(c) ==
    /\ c.op = "update"
    /\ IF c.error
       THEN /\ log' = <<"toast.error: Failed to update transaction">>
            /\ calls' = Taken(c)
            /\ UNCHANGED FirmAccountDetails
       ELSE /\ log' = <<"toast.success: Transaction updated successfully">>
            /\ calls' = Sent(Taken(c),
                  Following(c, {FetchTransactionsCall(c.id),
                                FetchAccountDetailsCall(c.id)}))
            /\ FirmAccountDetails' = SetFirmAccountDetails(c,
                  [FirmAccountDetails EXCEPT !.editDialogOpen = FALSE])
    /\ EditFirmTransactionDialog' =
          IF Mounted(c, "FirmAccountDetails")
          THEN [EditFirmTransactionDialog EXCEPT !.loading = FALSE]
          ELSE EditFirmTransactionDialog
    /\ UNCHANGED writes

\* an answer reaches the code that awaits it
Deliver ==
    \E c \in BagToSet(calls) :
        /\ c.stage = "done"
        /\ \/ DeliverFetchAccountDetails(c)
           \/ DeliverFetchTransactions(c)
           \/ DeliverDelete(c)
           \/ DeliverUpdate(c)
        /\ UNCHANGED <<offStatement, storeVars, settings>>

\* the route's id changes while the page stays in the tree: the effect
\* runs for the new id, the useState values stay
RouteChanged ==
    /\ page = "FirmAccountDetails"
    /\ FirmAccountDetails.effectRanFor = Some(FirmAccountDetails.id)
    /\ writes < MaxWrites
    /\ \E id \in RouteIds \ {FirmAccountDetails.id} :
          /\ FirmAccountDetails' =
                [FirmAccountDetails EXCEPT !.id = id, !.effectRanFor = Some(id)]
          /\ calls' = Sent(calls, {FetchAccountDetailsCall(id),
                                   FetchTransactionsCall(id)})
    /\ writes' = writes + 1
    /\ log' = <<>>
    /\ UNCHANGED <<offStatement, storeVars, settings, EditFirmTransactionDialog>>

\* the rows whose Edit and Delete buttons the user goes for: the expense of
\* the scenario, and the withdrawal
EditTargets == {2}

DeleteTargets == {2, 3}

\* the statement is on screen: neither 'Loading...' nor 'Account not found'
StatementRendered ==
    /\ page = "FirmAccountDetails"
    /\ ~FirmAccountDetails.loading
    /\ FirmAccountDetails.account # None

\* the dialog is on screen; while it is, it covers the statement
DialogRendered ==
    /\ StatementRendered
    /\ FirmAccountDetails.editDialogOpen
    /\ FirmAccountDetails.selectedTransaction # None

\* the dialog's useEffect(..., [transaction, open]), run after a render in
\* which open became true
FormOf(transaction) ==
    [transaction_type |-> transaction.transaction_type,
     amount           |-> <<NumberToDecimal(transaction.amount)>>,
     description      |-> IF transaction.description = NULL THEN ""
                          ELSE transaction.description,
     transaction_date |-> <<transaction.transaction_date>>]

\* handleEditTransaction without its check of settings.allowEdit
handleEditTransactionUngated(transaction) ==
    /\ log' = <<>>
    /\ FirmAccountDetails' =
          [FirmAccountDetails EXCEPT
              !.selectedTransaction = Some(transaction),
              !.editDialogOpen = TRUE]
    /\ EditFirmTransactionDialog' =
          [EditFirmTransactionDialog EXCEPT !.formData = FormOf(transaction)]
    /\ UNCHANGED <<offStatement, storeVars, settings, calls, writes>>

\* handleEditTransaction(transaction)
handleEditTransaction(transaction) ==
    /\ IF ~settings.allowEdit
       THEN /\ log' = <<"toast.error: Edit permission denied">>
            /\ UNCHANGED <<FirmAccountDetails, EditFirmTransactionDialog>>
       ELSE /\ log' = <<>>
            /\ FirmAccountDetails' =
                  [FirmAccountDetails EXCEPT
                      !.selectedTransaction = Some(transaction),
                      !.editDialogOpen = TRUE]
            /\ EditFirmTransactionDialog' =
                  [EditFirmTransactionDialog EXCEPT
                      !.formData = FormOf(transaction)]
    /\ UNCHANGED <<offStatement, storeVars, settings, calls, writes>>

\* the Edit button of a row, which is rendered only when settings.allowEdit
\* holds
EditClicked ==
    /\ StatementRendered
    /\ ~FirmAccountDetails.editDialogOpen
    /\ settings.allowEdit
    /\ \E i \in 1..Len(FirmAccountDetails.transactions) :
          /\ FirmAccountDetails.transactions[i].id \in EditTargets
          /\ handleEditTransaction(FirmAccountDetails.transactions[i])

\* handleEditTransaction invoked for a displayed row, whatever
\* settings.allowEdit is: the handler makes its own check of the flag and does
\* not rely on the button being rendered under it
EditInvoked ==
    /\ StatementRendered
    /\ ~FirmAccountDetails.editDialogOpen
    /\ \E i \in 1..Len(FirmAccountDetails.transactions) :
          /\ FirmAccountDetails.transactions[i].id \in EditTargets
          /\ handleEditTransaction(FirmAccountDetails.transactions[i])

\* handleDeleteTransaction without its check of settings.allowDelete
handleDeleteTransactionUngated(transactionId, confirmed) ==
    /\ log' = <<"confirm: Are you sure you want to delete this transaction?">>
    /\ IF confirmed
       THEN /\ writes < MaxWrites
            /\ writes' = writes + 1
            /\ calls' = Sent(calls,
                  {Call("delete", FirmAccountDetails.id, transactionId, <<>>)})
       ELSE UNCHANGED <<calls, writes>>
    /\ UNCHANGED <<offStatement, storeVars, pageVars>>

\* handleDeleteTransaction(transactionId); confirmed is the user's answer to
\* confirm()
handleDeleteTransaction(transactionId, confirmed) ==
    /\ IF ~settings.allowDelete
       THEN /\ log' = <<"toast.error: Delete permission denied">>
            /\ UNCHANGED <<calls, writes>>
       ELSE /\ log' = <<"confirm: Are you sure you want to delete this transaction?">>
            /\ IF confirmed
               THEN /\ writes < MaxWrites
                    /\ writes' = writes + 1
                    /\ calls' = Sent(calls,
                          {Call("delete", FirmAccountDetails.id, transactionId, <<>>)})
               ELSE UNCHANGED <<calls, writes>>
    /\ UNCHANGED <<offStatement, storeVars, pageVars>>

\* the Delete button of a row, which is rendered only when
\* settings.allowDelete holds
DeleteClicked ==
    /\ StatementRendered
    /\ ~FirmAccountDetails.editDialogOpen
    /\ settings.allowDelete
    /\ \E i \in 1..Len(FirmAccountDetails.transactions), confirmed \in BOOLEAN :
          /\ FirmAccountDetails.transactions[i].id \in DeleteTargets
          /\ handleDeleteTransaction(FirmAccountDetails.transactions[i].id, confirmed)

\* handleDeleteTransaction invoked for a displayed row, whatever
\* settings.allowDelete is
DeleteInvoked ==
    /\ StatementRendered
    /\ ~FirmAccountDetails.editDialogOpen
    /\ \E i \in 1..Len(FirmAccountDetails.transactions), confirmed \in BOOLEAN :
          /\ FirmAccountDetails.transactions[i].id \in DeleteTargets
          /\ handleDeleteTransaction(FirmAccountDetails.transactions[i].id, confirmed)

\* what the user puts into the dialog's type and amount fields, the other
\* fields being left as filled in; an amount is a multiple of the input's
\* step 0.01, of either sign
TypeInputs == {"income"}

AmountInputs == {-5000}

\* the onValueChange and onChange handlers of the dialog's fields
FieldChanged ==
    /\ DialogRendered
    /\ \E formData \in
            {[EditFirmTransactionDialog.formData EXCEPT !.transaction_type = v] :
                v \in TypeInputs}
            \cup {[EditFirmTransactionDialog.formData EXCEPT !.amount = <<v>>] :
                v \in AmountInputs} :
          /\ formData # EditFirmTransactionDialog.formData
          /\ EditFirmTransactionDialog' =
                [EditFirmTransactionDialog EXCEPT !.formData = formData]
    /\ log' = <<>>
    /\ UNCHANGED <<offStatement, storeVars, settings, FirmAccountDetails, calls,
                   writes>>

\* onOpenChange(false): Cancel, or the dialog dismissed
DialogDismissed ==
    /\ DialogRendered
    /\ FirmAccountDetails' = [FirmAccountDetails EXCEPT !.editDialogOpen = FALSE]
    /\ log' = <<>>
    /\ UNCHANGED <<offStatement, storeVars, settings, EditFirmTransactionDialog,
                   calls, writes>>

\* the dialog's handleSubmit up to its await.  The form is submitted only
\* with its required fields filled, and the button is disabled while loading.
handleSubmit ==
    /\ DialogRendered
    /\ ~EditFirmTransactionDialog.loading
    /\ EditFirmTransactionDialog.formData.amount # <<>>
    /\ EditFirmTransactionDialog.formData.transaction_date # <<>>
    /\ writes < MaxWrites
    /\ writes' = writes + 1
    /\ LET formData    == EditFirmTransactionDialog.formData
           transaction == FirmAccountDetails.selectedTransaction[1]
           body == [transaction_type |-> formData.transaction_type,
                    amount           |-> NumberToDecimal(ParseFloat(formData.amount[1])),
                    description      |-> IF formData.description = "" THEN NULL
                                         ELSE formData.description,
                    transaction_date |-> formData.transaction_date[1]]
       IN  calls' = Sent(calls,
              {Call("update", FirmAccountDetails.id, transaction.id, <<body>>)})
    /\ EditFirmTransactionDialog' =
          [EditFirmTransactionDialog EXCEPT !.loading = TRUE]
    /\ log' = <<>>
    /\ UNCHANGED <<offStatement, storeVars, settings, FirmAccountDetails>>

(***************************************************************************)
(* The send dialog, SendMoneyDialog, of account a1.  Its host is not among  *)
(* the pages here: it opens the dialog and is told onMoneySent().  The     *)
(* user is signed in.                                                      *)
(***************************************************************************)
\* the props firmAccountId and firmAccountName
firmAccountId == "a1"

firmAccountName == InitialAccounts[firmAccountId].account_name

\* table mahajans, which no code here writes to
Mahajans == <<[id |-> "m1", name |-> "Seth"]>>

\* what the send dialog leaves alone, the store apart
offSend == <<fn, args, result, settings, FirmAccountDetails,
             EditFirmTransactionDialog, FirmAccounts, shown, PartnerDetails,
             page, channels, enquiryVars>>

\* the host opens the dialog: useEffect(..., [open, user]) runs
\* fetchRecipients, whose two selects are awaited as one
SendOpened ==
    /\ page = "SendMoneyDialog"
    /\ ~SendMoneyDialog.open
    /\ SendMoneyDialog' = [SendMoneyDialog EXCEPT !.open = TRUE]
    /\ calls' = Sent(calls, {Call("fetchRecipients", firmAccountId, 0, <<>>)})
    /\ log' = <<>>
    /\ UNCHANGED <<offSend, storeVars, writes>>

\* from('partners').select('id, name').order('name'): the names are in the
\* order of the ids
PartnersByName == <<partners["p1"], partners["p2"]>>

\* the store answers fetchRecipients
ServeFetchRecipients ==
    \E c \in BagToSet(calls), fails \in BOOLEAN :
        /\ c.op = "fetchRecipients"
        /\ c.stage = "sent"
        /\ calls' = Sent(Taken(c),
              {IF fails THEN Answered(c, TRUE, <<>>)
               ELSE Answered(c, FALSE, <<PartnersByName, Mahajans>>)})
        /\ log' = <<>>
        /\ UNCHANGED <<offSend, storeVars, SendMoneyDialog, writes>>

\* fetchRecipients after its await
DeliverFetchRecipients ==
    \E c \in BagToSet(calls) :
        /\ c.op = "fetchRecipients"
        /\ c.stage = "done"
        /\ calls' = Taken(c)
        /\ IF c.error
           THEN /\ log' = <<"toast.error: Failed to load recipients">>
                /\ UNCHANGED SendMoneyDialog
           ELSE /\ log' = <<>>
                /\ SendMoneyDialog' =
                      [SendMoneyDialog EXCEPT !.partners = c.data[1],
                                              !.mahajans = c.data[2]]
        /\ UNCHANGED <<offSend, storeVars, writes>>

\* const recipients = formData.recipient_type === 'partner' ? partners : mahajans
recipients ==
    IF SendMoneyDialog.formData.recipient_type = "partner"
    THEN SendMoneyDialog.partners ELSE SendMoneyDialog.mahajans

\* what the user puts into the send dialog's type and amount fields
SendTypeInputs == {"partner_withdrawal"}

SendAmountInputs == {2500, -5000}

\* the handlers of the send dialog's fields, were a change of the recipient
\* type to leave the selected recipient in place
SendFieldChangedKeepingRecipient ==
    /\ page = "SendMoneyDialog"
    /\ SendMoneyDialog.open
    /\ \E formData \in
            {[SendMoneyDialog.formData EXCEPT !.recipient_type = v] :
                v \in {"partner", "mahajan"} \ {SendMoneyDialog.formData.recipient_type}}
            \cup {[SendMoneyDialog.formData EXCEPT !.recipient_id = recipients[i].id] :
                i \in 1..Len(recipients)}
            \cup {[SendMoneyDialog.formData EXCEPT !.transaction_type = v] :
                v \in SendTypeInputs}
            \cup {[SendMoneyDialog.formData EXCEPT !.amount = <<v>>] :
                v \in SendAmountInputs} :
          /\ formData # SendMoneyDialog.formData
          /\ SendMoneyDialog' = [SendMoneyDialog EXCEPT !.formData = formData]
    /\ log' = <<>>
    /\ UNCHANGED <<offSend, storeVars, calls, writes>>

\* the onValueChange and onChange handlers of the send dialog's fields, the
\* date and the description being left as they are; no field is disabled
\* while the insert is in flight
SendFieldChanged ==
    /\ page = "SendMoneyDialog"
    /\ SendMoneyDialog.open
    /\ \E formData \in
            {[SendMoneyDialog.formData EXCEPT !.recipient_type = v,
                                              !.recipient_id = ""] :
                v \in {"partner", "mahajan"} \ {SendMoneyDialog.formData.recipient_type}}
            \cup {[SendMoneyDialog.formData EXCEPT !.recipient_id = recipients[i].id] :
                i \in 1..Len(recipients)}
            \cup {[SendMoneyDialog.formData EXCEPT !.transaction_type = v] :
                v \in SendTypeInputs}
            \cup {[SendMoneyDialog.formData EXCEPT !.amount = <<v>>] :
                v \in SendAmountInputs} :
          /\ formData # SendMoneyDialog.formData
          /\ SendMoneyDialog' = [SendMoneyDialog EXCEPT !.formData = formData]
    /\ log' = <<>>
    /\ UNCHANGED <<offSend, storeVars, calls, writes>>

\* mahajans.find(m => m.id === formData.recipient_id)?.name, in a template
nameOfMahajan(id) ==
    LET found == SelectSeq(SendMoneyDialog.mahajans, LAMBDA m : m.id = id)
    IN  IF found = <<>> THEN "undefined" ELSE found[1].name

\* the object handleSubmit inserts
InsertBody ==
    LET formData == SendMoneyDialog.formData
    IN  [firm_account_id  |-> firmAccountId,
         partner_id       |-> IF formData.recipient_type = "partner"
                              THEN formData.recipient_id ELSE NULL,
         transaction_type |-> formData.transaction_type,
         amount           |-> NumberToDecimal(ParseFloat(formData.amount[1])),
         transaction_date |-> formData.transaction_date[1],
         description      |->
             IF formData.description # "" THEN formData.description
             ELSE IF formData.recipient_type = "partner"
             THEN "Money sent to partner from " \o firmAccountName
             ELSE "Payment to mahajan: " \o nameOfMahajan(formData.recipient_id)
                      \o " from " \o firmAccountName]

\* the send dialog's handleSubmit up to its await, with whatever the form
\* holds: without a recipient or without an amount it notifies and returns.
\* The button is disabled while loading.
sendHandleSubmit ==
    /\ page = "SendMoneyDialog"
    /\ SendMoneyDialog.open
    /\ ~SendMoneyDialog.loading
    /\ IF SendMoneyDialog.formData.recipient_id = ""
          \/ SendMoneyDialog.formData.amount = <<>>
       THEN /\ log' = <<"toast.error: Please fill all required fields">>
            /\ UNCHANGED <<SendMoneyDialog, calls, writes>>
       ELSE /\ writes < MaxWrites
            /\ writes' = writes + 1
            /\ SendMoneyDialog' = [SendMoneyDialog EXCEPT !.loading = TRUE]
            /\ calls' = Sent(calls,
                  {Call("insert", firmAccountId, 0, <<InsertBody>>)})
            /\ log' = <<>>
    /\ UNCHANGED <<offSend, storeVars>>

\* from('firm_transactions').insert(body): the store gives the row its id
\* and created_at
InsertTransaction(body) ==
    Append(firm_transactions,
           [id               |-> 1000 + writes,
            firm_account_id  |-> body.firm_account_id,
            partner_id       |-> body.partner_id,
            transaction_type |-> body.transaction_type,
            amount           |-> body.amount,
            description      |-> body.description,
            transaction_date |-> body.transaction_date,
            created_at       |-> 1000 + writes])

\* the store handles the insert
ServeInsert ==
    \E c \in BagToSet(calls), fails \in BOOLEAN :
        /\ c.op = "insert"
        /\ c.stage = "sent"
        /\ calls' = Sent(Taken(c), {Answered(c, fails, <<>>)})
        /\ firm_transactions' =
              IF fails THEN firm_transactions ELSE InsertTransaction(c.body[1])
        /\ log' = <<>>
        /\ UNCHANGED <<offSend, firm_accounts, partners, partner_transactions,
                       SendMoneyDialog, writes>>

\* the send dialog's handleSubmit after its await: on success the form is
\* reset, onMoneySent() and onOpenChange(false) are called;
\* setLoading(false) in either case
DeliverInsert ==
    \E c \in BagToSet(calls) :
        /\ c.op = "insert"
        /\ c.stage = "done"
        /\ calls' = Taken(c)
        /\ IF c.error
           THEN /\ log' = <<"toast.error: Failed to send money">>
                /\ SendMoneyDialog' = [SendMoneyDialog EXCEPT !.loading = FALSE]
           ELSE /\ log' = <<"toast.success: Money sent successfully",
                            "onMoneySent()">>
                /\ SendMoneyDialog' =
                      [SendMoneyDialog EXCEPT !.formData = SendForm,
                                              !.open = FALSE,
                                              !.loading = FALSE]
        /\ UNCHANGED <<offSend, storeVars, writes>>

\* the most submits and dismissals of the send dialog together: one more
\* than the writes, for a dismissal to follow a submit
MaxSendEvents == MaxWrites + 1

\* onOpenChange(false) from the Cancel button or from the Dialog (Escape, a
\* click outside, the close button): the host sets open to false; the form
\* and loading stay as they are, and what is in flight stays in flight
SendDismissed ==
    /\ page = "SendMoneyDialog"
    /\ SendMoneyDialog.open
    /\ writes < MaxSendEvents
    /\ writes' = writes + 1
    /\ SendMoneyDialog' = [SendMoneyDialog EXCEPT !.open = FALSE]
    /\ log' = <<>>
    /\ UNCHANGED <<offSend, storeVars, calls>>

NextSend ==
    \/ SendOpened
    \/ ServeFetchRecipients
    \/ DeliverFetchRecipients
    \/ SendFieldChanged
    \/ sendHandleSubmit
    \/ SendDismissed
    \/ ServeInsert
    \/ DeliverInsert

\* the back button of the statement: navigate('/firm-accounts').  The
\* statement page leaves the tree with its dialog, and the list page is
\* rendered anew; what is in flight stays in flight.
StatementBackClicked ==
    /\ StatementRendered
    /\ ~FirmAccountDetails.editDialogOpen
    /\ FirmAccounts.mounts < MaxMounts
    /\ page' = "FirmAccounts"
    /\ FirmAccounts' = FirmAccountsConstructed(FirmAccounts.mounts + 1)
    /\ log' = <<>>
    /\ UNCHANGED <<fn, args, result, storeVars, pageVars, shown, PartnerDetails,
                   channels, SendMoneyDialog, enquiryVars, calls, writes>>

NextDetails ==
    \/ MountEffect
    \/ Serve
    \/ Deliver
    \/ EditClicked
    \/ DeleteClicked
    \/ FieldChanged
    \/ DialogDismissed
    \/ handleSubmit
    \/ StatementBackClicked

(***************************************************************************)
(* FirmAccounts                                                            *)
(***************************************************************************)
\* from('firm_accounts').select('*').order('created_at', desc)
SelectAccounts ==
    LET ids  == DOMAIN firm_accounts
        rows == CHOOSE q \in [1..Cardinality(ids) -> ids] :
                    \A i, j \in 1..Cardinality(ids) : i # j => q[i] # q[j]
    IN  {RowsOf(ordered) :
            ordered \in OrderKeyed(
                [i \in 1..Len(rows) |->
                    [key |-> <<firm_accounts[rows[i]].created_at>>,
                     row |-> AccountAsRead(firm_accounts[rows[i]])]])}

\* the update, were it to write the whole row anew with a zero opening
\* balance
UpdateAccountResettingOpening(accountId, body) ==
    [a \in DOMAIN firm_accounts |->
        IF a = accountId
        THEN [firm_accounts[a] EXCEPT !.is_active = body.is_active,
                                      !.opening_balance = 0]
        ELSE firm_accounts[a]]

\* from('firm_accounts').update({ is_active }).eq('id', accountId)
UpdateAccount(accountId, body) ==
    [a \in DOMAIN firm_accounts |->
        IF a = accountId
        THEN [firm_accounts[a] EXCEPT !.is_active = body.is_active]
        ELSE firm_accounts[a]]

FetchAccountsCall == Call("fetchAccounts", "", 0, <<>>)

\* the list page's state after a setter called by the code that awaited c: a
\* setter of a page that is no longer rendered does nothing
SetFirmAccounts(c, updated) ==
    IF Mounted(c, "FirmAccounts") THEN updated ELSE FirmAccounts

\* the cards are on screen
ListRendered == page = "FirmAccounts" /\ ~FirmAccounts.loading

\* useEffect(..., []): after the first render of the page
ListMountEffect ==
    /\ page = "FirmAccounts"
    /\ ~FirmAccounts.effectRan
    /\ FirmAccounts' = [FirmAccounts EXCEPT !.effectRan = TRUE]
    /\ calls' = Sent(calls, {FetchAccountsCall})
    /\ log' = <<>>
    /\ UNCHANGED <<offList, storeVars, shown, writes>>

\* the store answers the accounts select of fetchAccounts
ServeFetchAccounts ==
    \E c \in BagToSet(calls), fails \in BOOLEAN :
        /\ c.op = "fetchAccounts"
        /\ c.stage = "sent"
        /\ \E rows \in SelectAccounts :
              calls' = Sent(Taken(c),
                  {IF fails THEN Answered(c, TRUE, <<>>)
                   ELSE Answered(c, FALSE, rows)})
        /\ log' = <<>>
        /\ UNCHANGED <<offList, storeVars, listVars, writes>>

\* fetchAccounts after the await of the accounts select: on an error the
\* catch and finally blocks, else one select of amounts and types per account
\* is sent, body holding what each has given so far
DeliverFetchAccounts ==
    \E c \in BagToSet(calls) :
        /\ c.op = "fetchAccounts"
        /\ c.stage = "done"
        /\ IF c.error
           THEN /\ log' = <<"toast.error: Failed to load firm accounts">>
                /\ calls' = Taken(c)
                /\ FirmAccounts' = SetFirmAccounts(c,
                      [FirmAccounts EXCEPT !.loading = FALSE])
           ELSE /\ log' = <<>>
                /\ calls' = Sent(Taken(c),
                      {[c EXCEPT !.stage = "reading",
                                 !.body = [i \in 1..Len(c.data) |-> None]]})
                /\ UNCHANGED FirmAccounts
        /\ UNCHANGED <<offList, storeVars, shown, writes>>

\* the store answers the select of one account's amounts and types, which
\* has no order clause, and the callback reduces the rows it got; the
\* response's error, which the callback does not look at, stays with the
\* balance
ServeBalanceRead ==
    \E c \in BagToSet(calls) :
        /\ c.op = "fetchAccounts"
        /\ c.stage = "reading"
        /\ \E i \in 1..Len(c.data) :
              /\ c.body[i] = None
              /\ \E fails \in BOOLEAN,
                    p \in Orders(Len(LedgerOf(c.data[i].id))) :
                    LET txns == IF fails THEN <<>>
                                ELSE AsNumbers(Permuted(LedgerOf(c.data[i].id), p))
                    IN  calls' = Sent(Taken(c),
                           {[c EXCEPT !.body[i] =
                               Some([error |-> fails,
                                     calculatedBalance |->
                                         calculatedBalance(
                                             c.data[i].opening_balance, txns)])]})
        /\ log' = <<>>
        /\ UNCHANGED <<offList, storeVars, listVars, writes>>

\* 'Current Balance' of each card as rendered
BalancesShown(accounts) ==
    [i \in 1..Len(accounts) |->
        [id |-> accounts[i].id, text |-> ToFixed2(accounts[i].current_balance)]]

\* the last two entries of a history
LastTwo(history) ==
    IF Len(history) <= 2 THEN history ELSE SubSeq(history, Len(history) - 1, Len(history))

\* fetchAccounts after Promise.all: setAccounts, and the finally block
CompleteFetchAccounts ==
    \E c \in BagToSet(calls) :
        /\ c.op = "fetchAccounts"
        /\ c.stage = "reading"
        /\ \A i \in 1..Len(c.data) : c.body[i] # None
        /\ LET accountsWithCalculatedBalance ==
                   [i \in 1..Len(c.data) |->
                       [c.data[i] EXCEPT
                           !.current_balance = c.body[i][1].calculatedBalance]]
           IN  /\ FirmAccounts' = SetFirmAccounts(c,
                     [FirmAccounts EXCEPT
                         !.accounts = accountsWithCalculatedBalance,
                         !.loading = FALSE])
               /\ shown' =
                     IF Mounted(c, "FirmAccounts")
                     THEN LastTwo(Append(shown,
                              BalancesShown(accountsWithCalculatedBalance)))
                     ELSE shown
        /\ calls' = Taken(c)
        /\ log' = <<>>
        /\ UNCHANGED <<offList, storeVars, writes>>

\* toggleAccountStatus(accountId, currentStatus) up to its await
toggleAccountStatus(accountId, currentStatus) ==
    /\ writes' = writes + 1
    /\ calls' = Sent(calls,
          {Call("toggleAccountStatus", accountId, 0,
                <<[is_active |-> ~currentStatus]>>)})
    /\ log' = <<>>
    /\ UNCHANGED <<offList, storeVars, listVars>>

\* the eye button of a card
ToggleClicked ==
    /\ ListRendered
    /\ writes < MaxWrites
    /\ \E i \in 1..Len(FirmAccounts.accounts) :
          toggleAccountStatus(FirmAccounts.accounts[i].id,
                              FirmAccounts.accounts[i].is_active)

ServeToggle ==
    \E c \in BagToSet(calls), fails \in BOOLEAN :
        /\ c.op = "toggleAccountStatus"
        /\ c.stage = "sent"
        /\ calls' = Sent(Taken(c), {Answered(c, fails, <<>>)})
        /\ firm_accounts' =
              IF fails THEN firm_accounts ELSE UpdateAccount(c.id, c.body[1])
        /\ log' = <<>>
        /\ UNCHANGED <<offList, firm_transactions, partners,
                       partner_transactions, listVars, writes>>

\* toggleAccountStatus after its await
DeliverToggle ==
    \E c \in BagToSet(calls) :
        /\ c.op = "toggleAccountStatus"
        /\ c.stage = "done"
        /\ IF c.error
           THEN /\ log' = <<"toast.error: Failed to update account">>
                /\ calls' = Taken(c)
           ELSE /\ log' = <<IF c.body[1].is_active
                            THEN "toast.success: Account activated"
                            ELSE "toast.success: Account deactivated">>
                /\ calls' = Sent(Taken(c), Following(c, {FetchAccountsCall}))
        /\ UNCHANGED <<offList, storeVars, listVars, writes>>

\* handleViewStatement(accountId): navigate(`/firm-accounts/${accountId}`).
\* The list page leaves the tree and the statement page is rendered for the
\* account; what is in flight stays in flight.
handleViewStatement(accountId) ==
    /\ page' = "FirmAccountDetails"
    /\ FirmAccountDetails' = FirmAccountDetailsConstructed(accountId)
    /\ EditFirmTransactionDialog' = EditFirmTransactionDialogConstructed
    /\ log' = <<>>
    /\ UNCHANGED <<fn, args, result, storeVars, settings, listVars,
                   PartnerDetails, channels, SendMoneyDialog, enquiryVars,
                   calls, writes>>

\* 'View Details' of a card
ViewDetailsClicked ==
    /\ ListRendered
    /\ \E i \in 1..Len(FirmAccounts.accounts) :
          handleViewStatement(FirmAccounts.accounts[i].id)

\* the back button of the list: navigate(-1), to the page the user came from
BackClicked ==
    /\ ListRendered
    /\ page' = "history(-1)"
    /\ log' = <<>>
    /\ UNCHANGED <<fn, args, result, storeVars, pageVars, listVars,
                   PartnerDetails, channels, SendMoneyDialog, enquiryVars,
                   calls, writes>>

\* onAccountAdded of AddFirmAccountDialog, which is fetchAccounts: the list
\* stays on screen while it is fetched again
onAccountAdded ==
    /\ ListRendered
    /\ writes < MaxWrites
    /\ writes' = writes + 1
    /\ calls' = Sent(calls, {FetchAccountsCall})
    /\ log' = <<>>
    /\ UNCHANGED <<offList, storeVars, listVars>>

\* the most clicks on eye buttons in one visit of the list page: one more
\* than the writes, for a click to follow another
MaxToggles == MaxWrites + 1

\* the eye button of a card in a visit with several clicks: the button stays
\* enabled while a toggle and the refresh after it are in flight, and the
\* handler is given the status the card shows
EyeClicked ==
    /\ ListRendered
    /\ writes < MaxToggles
    /\ \E i \in 1..Len(FirmAccounts.accounts) :
          toggleAccountStatus(FirmAccounts.accounts[i].id,
                              FirmAccounts.accounts[i].is_active)

\* one visit of the list page
NextToggles ==
    \/ ListMountEffect
    \/ ServeFetchAccounts
    \/ DeliverFetchAccounts
    \/ ServeBalanceRead
    \/ CompleteFetchAccounts
    \/ EyeClicked
    \/ ServeToggle
    \/ DeliverToggle

\* the list page visited again and again by way of the statement page,
\* which the user looks at and goes back from
NextVisits ==
    \/ ListMountEffect
    \/ ServeFetchAccounts
    \/ DeliverFetchAccounts
    \/ ServeBalanceRead
    \/ CompleteFetchAccounts
    \/ ViewDetailsClicked
    \/ MountEffect
    \/ Serve
    \/ Deliver
    \/ StatementBackClicked

\* one visit of the list page, until it is left
NextAccounts ==
    \/ ListMountEffect
    \/ ServeFetchAccounts
    \/ DeliverFetchAccounts
    \/ ServeBalanceRead
    \/ CompleteFetchAccounts
    \/ ToggleClicked
    \/ ServeToggle
    \/ DeliverToggle
    \/ onAccountAdded
    \/ BackClicked
    \/ ViewDetailsClicked

(***************************************************************************)
(* PartnerDetails                                                          *)
(***************************************************************************)
\* the most rows of either stream of the partner whose page is opened
MaxStream == 2

\* dates of January 2024, by their day: '2024-01-10', '2024-01-15',
\* '2024-01-20'
StatementDates == {10, 15, 20}

\* days from 1970-01-01 to 2023-12-31
DaysBefore2024 == 54 * 365 + 13 - 1

\* new Date(date).getTime() for a date of January 2024 given by its day, in
\* days (a day is 86400000 ms)
GetTime(date) == DaysBefore2024 + date

\* the rows of partner_transactions for partner p1 on the given dates, in
\* physical order, and after them a row of partner p2
PartnerRows(dates) ==
    [i \in 1..(Len(dates) + 1) |->
        IF i <= Len(dates)
        THEN [id |-> 100 + i, partner_id |-> "p1", amount |-> 100 * i,
              payment_date |-> dates[i],
              payment_mode |-> IF i = 1 THEN "cash" ELSE "upi",
              notes |-> IF i = 1 THEN NULL ELSE "paid",
              mahajan_id |-> IF i = 1 THEN "m1" ELSE NULL,
              mahajans |-> IF i = 1 THEN Some([name |-> "Seth"]) ELSE None,
              created_at |-> i]
        ELSE [id |-> 100 + i, partner_id |-> "p2", amount |-> 100,
              payment_date |-> 15, payment_mode |-> "cash", notes |-> NULL,
              mahajan_id |-> NULL, mahajans |-> None, created_at |-> i]]

\* the rows of firm_transactions for partner p1 on the given dates, in
\* physical order, and after them a payment to no partner
FirmRows(dates) ==
    [i \in 1..(Len(dates) + 1) |->
        [id               |-> i,
         firm_account_id  |-> "a1",
         partner_id       |-> IF i <= Len(dates) THEN "p1" ELSE NULL,
         transaction_type |-> IF i = 1 THEN "partner_withdrawal"
                              ELSE "partner_deposit",
         amount           |-> 1000 * i,
         description      |-> IF i = 1 THEN NULL ELSE "transfer",
         transaction_date |-> IF i <= Len(dates) THEN dates[i] ELSE 15,
         created_at       |-> i]]

DateSeqs == UNION {[1..n -> StatementDates] : n \in 0..MaxStream}

InitStreams ==
    /\ firm_accounts = InitialAccounts
    /\ partners = InitialPartners
    /\ partner_transactions \in {PartnerRows(dates) : dates \in DateSeqs}
    /\ firm_transactions \in {FirmRows(dates) : dates \in DateSeqs}

\* from('partner_transactions').select(...).eq('partner_id', id)
\*   .order('payment_date', desc)
SelectPartnerStream(id) ==
    LET Owned(row) == row.partner_id = id
        rows       == SelectSeq(partner_transactions, Owned)
    IN  {AllAsRead(RowsOf(ordered)) :
            ordered \in OrderKeyed(
                [i \in 1..Len(rows) |->
                    [key |-> <<rows[i].payment_date>>, row |-> rows[i]]])}

\* from('firm_transactions').select(..., firm_accounts (account_name))
\*   .eq('partner_id', id).order('transaction_date', desc)
SelectFirmStream(id) ==
    LET Owned(row) == row.partner_id = id
        rows       == SelectSeq(firm_transactions, Owned)
        Joined(row) ==
            [id               |-> row.id,
             amount           |-> row.amount,
             transaction_date |-> row.transaction_date,
             description      |-> row.description,
             transaction_type |-> row.transaction_type,
             firm_account_id  |-> row.firm_account_id,
             firm_accounts    |->
                 IF row.firm_account_id \in DOMAIN firm_accounts
                 THEN Some([account_name |->
                               firm_accounts[row.firm_account_id].account_name])
                 ELSE None]
    IN  {AllAsRead(RowsOf(ordered)) :
            ordered \in OrderKeyed(
                [i \in 1..Len(rows) |->
                    [key |-> <<rows[i].transaction_date>>,
                     row |-> Joined(rows[i])]])}

\* formattedPartnerTxns
FormatPartnerTxn(t) ==
    [id           |-> t.id,
     amount       |-> t.amount,
     payment_date |-> t.payment_date,
     payment_mode |-> t.payment_mode,
     notes        |-> t.notes,
     mahajan_name |-> IF t.mahajan_id # NULL
                      THEN (IF t.mahajans # None /\ t.mahajans[1].name # ""
                            THEN t.mahajans[1].name ELSE "Unknown")
                      ELSE "Firm Account"]

\* formattedFirmTxns
FormatFirmTxn(t) ==
    [id           |-> t.id,
     amount       |-> t.amount,
     payment_date |-> t.transaction_date,
     payment_mode |-> "bank",
     notes        |-> t.transaction_type \o " - "
                        \o (IF t.description = NULL \/ t.description = ""
                            THEN "No description" ELSE t.description)
                        \o " ("
                        \o (IF t.firm_accounts # None
                                /\ t.firm_accounts[1].account_name # ""
                            THEN t.firm_accounts[1].account_name
                            ELSE "Firm Account")
                        \o ")",
     mahajan_name |-> "Firm Account"]

\* a comparator that orders by date ascending
compareFnAscending(a, b) == GetTime(a.payment_date) - GetTime(b.payment_date)

\* (a, b) => new Date(b.payment_date).getTime() - new Date(a.payment_date).getTime()
compareFn(a, b) == GetTime(b.payment_date) - GetTime(a.payment_date)

\* Array.prototype.sort(compareFn), which is stable
RECURSIVE InsertSorted(_, _)
InsertSorted(item, sorted) ==
    IF sorted = <<>> THEN <<item>>
    ELSE IF compareFn(Head(sorted), item) < 0
    THEN <<Head(sorted)>> \o InsertSorted(item, Tail(sorted))
    ELSE <<item>> \o sorted

RECURSIVE ArraySort(_)
ArraySort(items) ==
    IF items = <<>> THEN <<>>
    ELSE InsertSorted(Head(items), ArraySort(Tail(items)))

\* allTransactions
MergedStatement(partnerTxns, firmTxns) ==
    ArraySort([i \in 1..Len(partnerTxns) |-> FormatPartnerTxn(partnerTxns[i])]
              \o [i \in 1..Len(firmTxns) |-> FormatFirmTxn(firmTxns[i])])

\* route ids the partner page is opened with: a partner, and an id no row has
PartnerRouteIds == {"p1", "p0"}

FetchPartnerDetailsCall(id) == Call("fetchPartnerDetails", id, 0, <<>>)

FetchPartnerTransactionsCall(id) ==
    Call("PartnerDetails.fetchTransactions", id, 0, <<>>)

\* the two channels the subscription effect creates for partner id:
\* postgres_changes, event '*', filter partner_id=eq.id
Subscriptions(id) ==
    {[name |-> "partner-transactions-changes", table |-> "partner_transactions",
      filter |-> id],
     [name |-> "firm-transactions-changes", table |-> "firm_transactions",
      filter |-> id]}

\* what the partner page's effects and navigation leave alone, the store apart
offPartnerPage == <<fn, args, result, settings, FirmAccountDetails,
                    EditFirmTransactionDialog, FirmAccounts, shown,
                    SendMoneyDialog, enquiryVars>>

\* the two useEffect(..., [id]) after the first render: both loads are
\* started, both channels are subscribed
PartnerMountEffect ==
    /\ page = "PartnerDetails"
    /\ PartnerDetails.effectRanFor # Some(PartnerDetails.id)
    /\ PartnerDetails' =
          [PartnerDetails EXCEPT !.effectRanFor = Some(PartnerDetails.id)]
    /\ calls' = Sent(calls, {FetchPartnerDetailsCall(PartnerDetails.id),
                             FetchPartnerTransactionsCall(PartnerDetails.id)})
    /\ channels' = channels \cup Subscriptions(PartnerDetails.id)
    /\ log' = <<>>
    /\ UNCHANGED <<offPartnerPage, page, storeVars, writes>>

\* a setter of the partner page: after the page has left the tree it sets
\* nothing
SetPartnerDetails(updated) ==
    IF page = "PartnerDetails" THEN updated ELSE PartnerDetails

\* the store answers fetchPartnerDetails: .single() is an error unless
\* exactly one row matches
ServeFetchPartnerDetails ==
    \E c \in BagToSet(calls), fails \in BOOLEAN :
        /\ c.op = "fetchPartnerDetails"
        /\ c.stage = "sent"
        /\ calls' = Sent(Taken(c),
              {IF fails \/ c.id \notin DOMAIN partners
               THEN Answered(c, TRUE, <<>>)
               ELSE Answered(c, FALSE, <<partners[c.id]>>)})
        /\ log' = <<>>
        /\ UNCHANGED <<offPartner, storeVars, PartnerDetails, writes>>

\* fetchPartnerDetails after its await
DeliverFetchPartnerDetails ==
    \E c \in BagToSet(calls) :
        /\ c.op = "fetchPartnerDetails"
        /\ c.stage = "done"
        /\ calls' = Taken(c)
        /\ IF c.error
           THEN /\ log' = <<"toast.error: Failed to load partner details">>
                /\ PartnerDetails' = SetPartnerDetails(
                      [PartnerDetails EXCEPT !.loading = FALSE])
           ELSE /\ log' = <<>>
                /\ PartnerDetails' = SetPartnerDetails(
                      [PartnerDetails EXCEPT !.partner = c.data,
                                             !.loading = FALSE])
        /\ UNCHANGED <<offPartner, storeVars, writes>>

\* the store answers the first select of fetchTransactions
ServePartnerStream ==
    \E c \in BagToSet(calls), fails \in BOOLEAN :
        /\ c.op = "PartnerDetails.fetchTransactions"
        /\ c.stage = "sent"
        /\ \E rows \in SelectPartnerStream(c.id) :
              calls' = Sent(Taken(c),
                  {IF fails THEN Answered(c, TRUE, <<>>)
                   ELSE Answered(c, FALSE, rows)})
        /\ log' = <<>>
        /\ UNCHANGED <<offPartner, storeVars, PartnerDetails, writes>>

\* fetchTransactions after its first await: on an error the catch block, else
\* the second select is sent, body holding partnerTxns
DeliverPartnerStream ==
    \E c \in BagToSet(calls) :
        /\ c.op = "PartnerDetails.fetchTransactions"
        /\ c.stage = "done"
        /\ IF c.error
           THEN /\ log' = <<"toast.error: Failed to load transactions">>
                /\ calls' = Taken(c)
           ELSE /\ log' = <<>>
                /\ calls' = Sent(Taken(c),
                      {[c EXCEPT !.stage = "sent again", !.body = c.data,
                                 !.data = <<>>]})
        /\ UNCHANGED <<offPartner, storeVars, PartnerDetails, writes>>

\* the store answers the second select of fetchTransactions
ServeFirmStream ==
    \E c \in BagToSet(calls), fails \in BOOLEAN :
        /\ c.op = "PartnerDetails.fetchTransactions"
        /\ c.stage = "sent again"
        /\ \E rows \in SelectFirmStream(c.id) :
              calls' = Sent(Taken(c),
                  {IF fails
                   THEN [c EXCEPT !.stage = "done again", !.error = TRUE]
                   ELSE [c EXCEPT !.stage = "done again", !.data = rows]})
        /\ log' = <<>>
        /\ UNCHANGED <<offPartner, storeVars, PartnerDetails, writes>>

\* fetchTransactions after its second await, were it to set the list only
\* while none is shown
DeliverFirmStreamOnce ==
    \E c \in BagToSet(calls) :
        /\ c.op = "PartnerDetails.fetchTransactions"
        /\ c.stage = "done again"
        /\ calls' = Taken(c)
        /\ IF c.error
           THEN /\ log' = <<"toast.error: Failed to load transactions">>
                /\ UNCHANGED PartnerDetails
           ELSE /\ log' = <<>>
                /\ PartnerDetails' = SetPartnerDetails(
                      IF PartnerDetails.transactions = <<>>
                      THEN [PartnerDetails EXCEPT
                               !.transactions = MergedStatement(c.body, c.data)]
                      ELSE PartnerDetails)
        /\ UNCHANGED <<offPartner, storeVars, writes>>

\* fetchTransactions after its second await, were its catch block to clear the
\* list
DeliverFirmStreamClearing ==
    \E c \in BagToSet(calls) :
        /\ c.op = "PartnerDetails.fetchTransactions"
        /\ c.stage = "done again"
        /\ calls' = Taken(c)
        /\ IF c.error
           THEN /\ log' = <<"toast.error: Failed to load transactions">>
                /\ PartnerDetails' = SetPartnerDetails(
                      [PartnerDetails EXCEPT !.transactions = <<>>])
           ELSE /\ log' = <<>>
                /\ PartnerDetails' = SetPartnerDetails(
                      [PartnerDetails EXCEPT
                          !.transactions = MergedStatement(c.body, c.data)])
        /\ UNCHANGED <<offPartner, storeVars, writes>>

\* fetchTransactions after its second await
DeliverFirmStream ==
    \E c \in BagToSet(calls) :
        /\ c.op = "PartnerDetails.fetchTransactions"
        /\ c.stage = "done again"
        /\ calls' = Taken(c)
        /\ IF c.error
           THEN /\ log' = <<"toast.error: Failed to load transactions">>
                /\ UNCHANGED PartnerDetails
           ELSE /\ log' = <<>>
                /\ PartnerDetails' = SetPartnerDetails(
                      [PartnerDetails EXCEPT
                          !.transactions = MergedStatement(c.body, c.data)])
        /\ UNCHANGED <<offPartner, storeVars, writes>>

\* a push reaches the client, were the callback to run fetchTransactions()
\* alone
PushDeliveredToTransactionsOnly ==
    \E c \in BagToSet(calls) :
        /\ c.op = "postgres_changes"
        /\ calls' =
              IF \E ch \in channels : ch.table = c.body[1] /\ ch.filter = c.id
              THEN Sent(Taken(c), {FetchPartnerTransactionsCall(c.id)})
              ELSE Taken(c)
        /\ log' = <<>>
        /\ UNCHANGED <<offPartner, storeVars, PartnerDetails, writes>>

\* a push reaches the client: the callback of the channel it is for runs
\* fetchTransactions() and fetchPartnerDetails(); a push for a channel that
\* was removed is dropped
PushDelivered ==
    \E c \in BagToSet(calls) :
        /\ c.op = "postgres_changes"
        /\ calls' =
              IF \E ch \in channels : ch.table = c.body[1] /\ ch.filter = c.id
              THEN Sent(Taken(c), {FetchPartnerTransactionsCall(c.id),
                                   FetchPartnerDetailsCall(c.id)})
              ELSE Taken(c)
        /\ log' = <<>>
        /\ UNCHANGED <<offPartner, storeVars, PartnerDetails, writes>>

\* handlePaymentAdded: a dialog of the page reports the payment it added
handlePaymentAdded ==
    \E c \in BagToSet(calls) :
        /\ c.op = "onPaymentAdded"
        /\ calls' = Sent(Taken(c), {FetchPartnerDetailsCall(c.id),
                                    FetchPartnerTransactionsCall(c.id)})
        /\ log' = <<>>
        /\ UNCHANGED <<offPartner, storeVars, PartnerDetails, writes>>

\* the route's id changes, were the subscription effect to have no cleanup
PartnerRouteChangedKeepingChannels ==
    /\ page = "PartnerDetails"
    /\ PartnerDetails.effectRanFor = Some(PartnerDetails.id)
    /\ writes < MaxWrites
    /\ \E id \in PartnerRouteIds \ {PartnerDetails.id} :
          /\ PartnerDetails' =
                [PartnerDetails EXCEPT !.id = id, !.effectRanFor = Some(id)]
          /\ channels' = channels \cup Subscriptions(id)
          /\ calls' = Sent(calls, {FetchPartnerDetailsCall(id),
                                   FetchPartnerTransactionsCall(id)})
    /\ writes' = writes + 1
    /\ log' = <<>>
    /\ UNCHANGED <<offPartnerPage, page, storeVars>>

\* the route's id changes while the page stays in the tree: the cleanup of
\* the subscription effect removes both channels, then both effects run for
\* the new id
PartnerRouteChanged ==
    /\ page = "PartnerDetails"
    /\ PartnerDetails.effectRanFor = Some(PartnerDetails.id)
    /\ writes < MaxWrites
    /\ \E id \in PartnerRouteIds \ {PartnerDetails.id} :
          /\ PartnerDetails' =
                [PartnerDetails EXCEPT !.id = id, !.effectRanFor = Some(id)]
          /\ channels' = (channels \ Subscriptions(PartnerDetails.id))
                            \cup Subscriptions(id)
          /\ calls' = Sent(calls, {FetchPartnerDetailsCall(id),
                                   FetchPartnerTransactionsCall(id)})
    /\ writes' = writes + 1
    /\ log' = <<>>
    /\ UNCHANGED <<offPartnerPage, page, storeVars>>

\* the page leaves the tree (navigate('/partners')): the cleanup of the
\* subscription effect removes both channels
PartnerLeft ==
    /\ page = "PartnerDetails"
    /\ PartnerDetails.effectRanFor = Some(PartnerDetails.id)
    /\ writes < MaxWrites
    /\ page' = "Partners"
    /\ channels' = channels \ Subscriptions(PartnerDetails.id)
    /\ writes' = writes + 1
    /\ log' = <<>>
    /\ UNCHANGED <<offPartnerPage, PartnerDetails, storeVars, calls>>

NextPartner ==
    \/ PartnerMountEffect
    \/ ServeFetchPartnerDetails
    \/ DeliverFetchPartnerDetails
    \/ ServePartnerStream
    \/ DeliverPartnerStream
    \/ ServeFirmStream
    \/ DeliverFirmStream

\* the two detail views, whichever the router renders, with navigation and
\* the store changing under them
NextViews ==
    \/ MountEffect
    \/ Serve
    \/ Deliver
    \/ RouteChanged
    \/ NextPartner
    \/ RowInserted
    \/ PushDelivered
    \/ handlePaymentAdded
    \/ PartnerRouteChanged
    \/ PartnerLeft
(***************************************************************************)
(* AdmissionEnquiry                                                        *)
(***************************************************************************)
\* what the enquiries page leaves alone, its table apart
offEnquiry == <<fn, args, result, storeVars, pageVars, listVars,
                PartnerDetails, page, channels, SendMoneyDialog>>

\* String.prototype.toLowerCase, over the characters that occur: A, B, a, b,
\* 8 and 9
toLowerCase(text) ==
    [i \in 1..Len(text) |->
        IF text[i] = "A" THEN "a" ELSE IF text[i] = "B" THEN "b" ELSE text[i]]

\* String.prototype.includes
includes(text, searchString) ==
    \E k \in 0..(Len(text) - Len(searchString)) :
        SubSeq(text, k + 1, k + Len(searchString)) = searchString

\* from("admission_enquiry").select("*").eq("user_id", user.id)
\*    .order("created_at", { ascending: false })
SelectEnquiries ==
    LET own == SelectSeq(admission_enquiry, LAMBDA e : e.user_id = user.id)
    IN  {RowsOf(ordered) :
            ordered \in OrderKeyed(
                [i \in 1..Len(own) |->
                    [key |-> <<own[i].created_at>>, row |-> own[i]]])}

\* from("admission_enquiry").delete().eq("id", deleteEnquiryId)
DeleteEnquiry(id) == SelectSeq(admission_enquiry, LAMBDA e : e.id # id)

FetchEnquiriesCall == Call("fetchEnquiries", user.id, 0, <<>>)

\* the callback of the first filter of the filter effect
searchFilter(e, searchTerm) ==
    \/ /\ e.child_name # None
       /\ includes(toLowerCase(e.child_name[1]), toLowerCase(searchTerm))
    \/ /\ e.parents_name # None
       /\ includes(toLowerCase(e.parents_name[1]), toLowerCase(searchTerm))
    \/ /\ e.mobile_no # None
       /\ includes(e.mobile_no[1], searchTerm)

\* the list the filter effect computes
filtered(enquiries, searchTerm, statusFilter) ==
    LET bySearch == IF searchTerm # <<>>
                    THEN SelectSeq(enquiries, LAMBDA e : searchFilter(e, searchTerm))
                    ELSE enquiries
    IN  IF statusFilter # "all"
        THEN SelectSeq(bySearch, LAMBDA e : e.status = statusFilter)
        ELSE bySearch

\* the effects that are due after a render run: fetchEnquiries up to its
\* await (useEffect on [user]), then the filter effect (useEffect on
\* [searchTerm, statusFilter, enquiries])
EnquiryEffects ==
    /\ page = "AdmissionEnquiry"
    /\ AdmissionEnquiry.effectsDue # {}
    /\ AdmissionEnquiry' =
          [AdmissionEnquiry EXCEPT
              !.loading = IF "fetchEnquiries" \in AdmissionEnquiry.effectsDue
                          THEN TRUE ELSE @,
              !.filteredEnquiries =
                  IF "filter" \in AdmissionEnquiry.effectsDue
                  THEN filtered(AdmissionEnquiry.enquiries,
                                AdmissionEnquiry.searchTerm,
                                AdmissionEnquiry.statusFilter)
                  ELSE @,
              !.effectsDue = {}]
    /\ calls' = IF "fetchEnquiries" \in AdmissionEnquiry.effectsDue
                THEN Sent(calls, {FetchEnquiriesCall}) ELSE calls
    /\ log' = <<>>
    /\ UNCHANGED <<offEnquiry, admission_enquiry, writes>>

\* the store answers the select of fetchEnquiries
ServeFetchEnquiries ==
    \E c \in BagToSet(calls), fails \in BOOLEAN :
        /\ c.op = "fetchEnquiries"
        /\ c.stage = "sent"
        /\ \E rows \in SelectEnquiries :
              calls' = Sent(Taken(c),
                  {IF fails THEN Answered(c, TRUE, <<>>)
                   ELSE Answered(c, FALSE, rows)})
        /\ log' = <<>>
        /\ UNCHANGED <<offEnquiry, enquiryVars, writes>>

\* fetchEnquiries after its await, were the filter effect not to depend on
\* enquiries
DeliverFetchEnquiriesWithoutEffect ==
    \E c \in BagToSet(calls) :
        /\ page = "AdmissionEnquiry"
        /\ AdmissionEnquiry.effectsDue = {}
        /\ c.op = "fetchEnquiries"
        /\ c.stage = "done"
        /\ calls' = Taken(c)
        /\ IF c.error
           THEN /\ log' = <<"toast.error: network error">>
                /\ AdmissionEnquiry' = [AdmissionEnquiry EXCEPT !.loading = FALSE]
           ELSE /\ log' = <<>>
                /\ AdmissionEnquiry' =
                      [AdmissionEnquiry EXCEPT !.enquiries = c.data,
                                               !.filteredEnquiries = c.data,
                                               !.loading = FALSE]
        /\ UNCHANGED <<offEnquiry, admission_enquiry, writes>>

\* fetchEnquiries after its await: setEnquiries and setFilteredEnquiries with
\* the rows read, setLoading(false); the new enquiries make the filter effect
\* due
DeliverFetchEnquiries ==
    \E c \in BagToSet(calls) :
        /\ page = "AdmissionEnquiry"
        /\ AdmissionEnquiry.effectsDue = {}
        /\ c.op = "fetchEnquiries"
        /\ c.stage = "done"
        /\ calls' = Taken(c)
        /\ IF c.error
           THEN /\ log' = <<"toast.error: network error">>
                /\ AdmissionEnquiry' = [AdmissionEnquiry EXCEPT !.loading = FALSE]
           ELSE /\ log' = <<>>
                /\ AdmissionEnquiry' =
                      [AdmissionEnquiry EXCEPT !.enquiries = c.data,
                                               !.filteredEnquiries = c.data,
                                               !.loading = FALSE,
                                               !.effectsDue = {"filter"}]
        /\ UNCHANGED <<offEnquiry, admission_enquiry, writes>>

\* what the user types into the search input and picks in the status select
SearchInputs == {<<>>, <<"a">>, <<"B">>, <<"9">>}

StatusInputs == {"all", "pending", "admitted", "not_admitted"}

\* the page is rendered, not 'Loading...', and the effects of the last render
\* have run
EnquiriesRendered ==
    /\ page = "AdmissionEnquiry"
    /\ ~AdmissionEnquiry.loading
    /\ AdmissionEnquiry.effectsDue = {}

\* onChange of the search input: setSearchTerm
SearchChanged ==
    /\ EnquiriesRendered
    /\ \E value \in SearchInputs \ {AdmissionEnquiry.searchTerm} :
          AdmissionEnquiry' = [AdmissionEnquiry EXCEPT !.searchTerm = value,
                                                       !.effectsDue = {"filter"}]
    /\ log' = <<>>
    /\ UNCHANGED <<offEnquiry, admission_enquiry, calls, writes>>

\* onValueChange of the status select: setStatusFilter
StatusChanged ==
    /\ EnquiriesRendered
    /\ \E value \in StatusInputs \ {AdmissionEnquiry.statusFilter} :
          AdmissionEnquiry' = [AdmissionEnquiry EXCEPT !.statusFilter = value,
                                                       !.effectsDue = {"filter"}]
    /\ log' = <<>>
    /\ UNCHANGED <<offEnquiry, admission_enquiry, calls, writes>>

\* the delete button of a row that is displayed: setDeleteEnquiryId
EnquiryDeleteClicked ==
    /\ EnquiriesRendered
    /\ AdmissionEnquiry.deleteEnquiryId = None
    /\ \E i \in 1..Len(AdmissionEnquiry.filteredEnquiries) :
          AdmissionEnquiry' =
              [AdmissionEnquiry EXCEPT
                  !.deleteEnquiryId = Some(AdmissionEnquiry.filteredEnquiries[i].id)]
    /\ log' = <<>>
    /\ UNCHANGED <<offEnquiry, admission_enquiry, calls, writes>>

\* handleDelete up to its await, from the Delete button of the alert dialog
handleDelete ==
    /\ EnquiriesRendered
    /\ AdmissionEnquiry.deleteEnquiryId # None
    /\ writes < MaxWrites
    /\ writes' = writes + 1
    /\ calls' = Sent(calls, {Call("handleDelete", user.id,
                                  AdmissionEnquiry.deleteEnquiryId[1], <<>>)})
    /\ log' = <<>>
    /\ UNCHANGED <<offEnquiry, enquiryVars>>

\* the store handles the delete
ServeEnquiryDelete ==
    \E c \in BagToSet(calls), fails \in BOOLEAN :
        /\ c.op = "handleDelete"
        /\ c.stage = "sent"
        /\ calls' = Sent(Taken(c), {Answered(c, fails, <<>>)})
        /\ admission_enquiry' =
              IF fails THEN admission_enquiry ELSE DeleteEnquiry(c.txn)
        /\ log' = <<>>
        /\ UNCHANGED <<offEnquiry, AdmissionEnquiry, writes>>

\* handleDelete after its await: on success the toast and fetchEnquiries up
\* to its await; setDeleteEnquiryId(null) in either case
DeliverEnquiryDelete ==
    \E c \in BagToSet(calls) :
        /\ page = "AdmissionEnquiry"
        /\ AdmissionEnquiry.effectsDue = {}
        /\ c.op = "handleDelete"
        /\ c.stage = "done"
        /\ IF c.error
           THEN /\ log' = <<"toast.error: network error">>
                /\ calls' = Taken(c)
                /\ AdmissionEnquiry' =
                      [AdmissionEnquiry EXCEPT !.deleteEnquiryId = None]
           ELSE /\ log' = <<"toast.success: Enquiry deleted successfully">>
                /\ calls' = Sent(Taken(c), {FetchEnquiriesCall})
                /\ AdmissionEnquiry' =
                      [AdmissionEnquiry EXCEPT !.deleteEnquiryId = None,
                                               !.loading = TRUE]
        /\ UNCHANGED <<offEnquiry, admission_enquiry, writes>>

\* onOpenChange(false) of the alert dialog (Cancel, Escape):
\* setDeleteEnquiryId(null), nothing deleted; a delete that was sent stays
\* in flight
AlertDismissed ==
    /\ EnquiriesRendered
    /\ AdmissionEnquiry.deleteEnquiryId # None
    /\ AdmissionEnquiry' = [AdmissionEnquiry EXCEPT !.deleteEnquiryId = None]
    /\ log' = <<>>
    /\ UNCHANGED <<offEnquiry, admission_enquiry, calls, writes>>

\* onSuccess of AddAdmissionEnquiryDialog and EditAdmissionEnquiryDialog,
\* which is fetchEnquiries up to its await: setLoading(true) and the select
onSuccess ==
    /\ EnquiriesRendered
    /\ writes < MaxWrites
    /\ writes' = writes + 1
    /\ AdmissionEnquiry' = [AdmissionEnquiry EXCEPT !.loading = TRUE]
    /\ calls' = Sent(calls, {FetchEnquiriesCall})
    /\ log' = <<>>
    /\ UNCHANGED <<offEnquiry, admission_enquiry>>

NextEnquiries ==
    \/ EnquiryEffects
    \/ ServeFetchEnquiries
    \/ DeliverFetchEnquiries
    \/ SearchChanged
    \/ StatusChanged
    \/ EnquiryDeleteClicked
    \/ handleDelete
    \/ ServeEnquiryDelete
    \/ DeliverEnquiryDelete
    \/ AlertDismissed
    \/ onSuccess

(***************************************************************************)
(* Specifications                                                          *)
(***************************************************************************)
\* the pure functions on drawn inputs
InitOfFunctions ==
    /\ InitFunctions
    /\ InitStore
    /\ InitPages({"a1"}, AllAllowed)
    /\ InitList
    /\ InitEnquiries
    /\ InitPartner({"p1"})
    /\ InitCalls("none")

SpecFunctions == InitOfFunctions /\ [][NextFunctions]_vars

\* the statement page with its dialog over the store of the scenario
InitDetails ==
    /\ InitFunctionsIdle
    /\ InitStore
    /\ InitPages(RouteIds, Permissions)
    /\ InitList
    /\ InitEnquiries
    /\ InitPartner({"p1"})
    /\ InitCalls("FirmAccountDetails")

SpecDetails == InitDetails /\ [][NextDetails]_vars

\* the statement page with its handlers of Edit and Delete invoked under
\* either setting
NextGates == NextDetails \/ EditInvoked \/ DeleteInvoked

SpecGates == InitDetails /\ [][NextGates]_vars

\* the list page over the store of the scenario
InitAccounts ==
    /\ InitFunctionsIdle
    /\ InitStore
    /\ InitPages({"a1"}, AllAllowed)
    /\ InitList
    /\ InitEnquiries
    /\ InitPartner({"p1"})
    /\ InitCalls("FirmAccounts")

SpecAccounts == InitAccounts /\ [][NextAccounts]_vars

SpecVisits == InitAccounts /\ [][NextVisits]_vars

\* the partner page over drawn streams
InitPartnerStatement ==
    /\ InitFunctionsIdle
    /\ InitStreams
    /\ InitPages({"a1"}, AllAllowed)
    /\ InitList
    /\ InitEnquiries
    /\ InitPartner(PartnerRouteIds)
    /\ InitCalls("PartnerDetails")

SpecPartner == InitPartnerStatement /\ [][NextPartner]_vars

\* the enquiries page
InitEnquiryPage ==
    /\ InitFunctionsIdle
    /\ InitStore
    /\ InitPages({"a1"}, AllAllowed)
    /\ InitList
    /\ InitEnquiries
    /\ InitPartner({"p1"})
    /\ InitCalls("AdmissionEnquiry")

SpecEnquiries == InitEnquiryPage /\ [][NextEnquiries]_vars

\* one visit of the list page over a store that holds account a1 and its
\* transactions
InitToggles ==
    /\ InitFunctionsIdle
    /\ firm_accounts = [a \in {"a1"} |-> InitialAccounts[a]]
    /\ firm_transactions = SelectSeq(InitialTransactions,
                                     LAMBDA t : t.firm_account_id = "a1")
    /\ partners = InitialPartners
    /\ partner_transactions = <<>>
    /\ InitPages({"a1"}, AllAllowed)
    /\ InitList
    /\ InitEnquiries
    /\ InitPartner({"p1"})
    /\ InitCalls("FirmAccounts")

SpecToggles == InitToggles /\ [][NextToggles]_vars

NextWrites == NextDetails \/ NextSend

\* the writes of the user: the statement page with its dialog, or the send
\* dialog, over the store of the scenario
InitWrites ==
    /\ InitFunctionsIdle
    /\ InitStore
    /\ InitList
    /\ InitEnquiries
    /\ InitPartner({"p1"})
    /\ \/ /\ InitPages(RouteIds, AllAllowed)
          /\ InitCalls("FirmAccountDetails")
       \/ /\ InitPages({"a1"}, AllAllowed)
          /\ InitCalls("SendMoneyDialog")

SpecWrites == InitWrites /\ [][NextWrites]_vars

\* a detail view, the statement page or the partner page, over the store of
\* the scenario, which other sessions write to
InitViews ==
    /\ InitFunctionsIdle
    /\ InitStore
    /\ InitList
    /\ InitEnquiries
    /\ \/ /\ InitPages(RouteIds, AllAllowed)
          /\ InitPartner({"p1"})
          /\ InitCalls("FirmAccountDetails")
       \/ /\ InitPages({"a1"}, AllAllowed)
          /\ InitPartner(PartnerRouteIds)
          /\ InitCalls("PartnerDetails")

SpecViews == InitViews /\ [][NextViews]_vars

(***************************************************************************)
(* The balance fold                                                        *)
(***************************************************************************)
\* sign(type) * amount in hundredths, as the specification's table has it
Signed(txn) ==
    IF txn.transaction_type \in {"partner_deposit", "income"} THEN txn.amount
    ELSE IF txn.transaction_type \in {"partner_withdrawal", "expense"}
    THEN -txn.amount
    ELSE 0

RECURSIVE SignedSum(_)
SignedSum(txns) ==
    IF txns = <<>> THEN 0 ELSE Signed(Head(txns)) + SignedSum(Tail(txns))

\* an exact number: a sign and a magnitude, in whatever unit the context has
Exact(neg, mag) == IF mag = <<>> THEN [neg |-> FALSE, mag |-> <<>>]
                   ELSE [neg |-> neg, mag |-> mag]

\* x + y and x - y with no rounding, x and y in one unit
ExactSum(x, y) ==
    IF x.neg = y.neg THEN Exact(x.neg, AddMag(x.mag, y.mag))
    ELSE LET c == CmpMag(x.mag, y.mag)
         IN  IF c = 0 THEN Exact(FALSE, <<>>)
             ELSE IF c > 0 THEN Exact(x.neg, SubMag(x.mag, y.mag))
             ELSE Exact(y.neg, SubMag(y.mag, x.mag))

ExactDifference(x, y) == ExactSum(x, Exact(~y.neg, y.mag))

\* the decimal d in hundredths
InHundredths(d) == Exact(d.hundredths < 0, HundredthsOf(d))

Credits == {"partner_deposit", "income"}

Debits == {"partner_withdrawal", "expense"}

\* sign(type) * amount of a row of the fold's input, in hundredths
SignedAmount(txn) ==
    IF txn.transaction_type \in Credits THEN InHundredths(txn.amount)
    ELSE IF txn.transaction_type \in Debits
    THEN Exact(txn.amount.hundredths > 0, HundredthsOf(txn.amount))
    ELSE Exact(FALSE, <<>>)

\* B plus the sum of sign(type) * amount over the rows, in hundredths
RECURSIVE ExactBalance(_, _)
ExactBalance(B, txns) ==
    IF txns = <<>> THEN InHundredths(B)
    ELSE ExactSum(ExactBalance(B, SubSeq(txns, 1, Len(txns) - 1)),
                  SignedAmount(txns[Len(txns)]))

\* |B| plus the sum of |amount| over the rows that have a sign, in hundredths
RECURSIVE MagnitudeSum(_, _)
MagnitudeSum(B, txns) ==
    IF txns = <<>> THEN HundredthsOf(B)
    ELSE AddMag(MagnitudeSum(B, Tail(txns)), SignedAmount(Head(txns)).mag)

\* how many rows have a sign
Additions(txns) ==
    Cardinality({i \in 1..Len(txns) :
                    txns[i].transaction_type \in Credits \cup Debits})

\* Numbers of the two units brought to one, 2^-59 / 100: a binary64 x, and a
\* number e of hundredths
InCommonUnit(x) == Exact(x.neg, MulSmall(x.mag, 100))

HundredthsInCommonUnit(e) ==
    Exact(e.neg, MulSmall(MulSmall(<<0, 0>> \o e.mag, 2^6),
                          2^(UnitExp - 2 * LimbBits - 6)))

\* k * 2^-SigBits * m hundredths, in the common unit
Roundings(k, m) == MulSmall(MulSmall(m, 2^(UnitExp - SigBits)), k)

\* The rounding a sum of B and n signed amounts can have gathered: each of the
\* n + 1 numbers is read with a relative error of at most 2^-53 and each of
\* the n additions rounds with a relative error of at most 2^-53, which for
\* the few rows of a ledger stays within (n + 2) * 2^-53 * (|B| + sum |amount|).
RoundingBound(B, txns) == Roundings(Additions(txns) + 2, MagnitudeSum(B, txns))

\* how far the binary64 x is from the number e of hundredths, in the common
\* unit
ErrorOf(x, e) == ExactDifference(InCommonUnit(x), HundredthsInCommonUnit(e)).mag

\* half a hundredth in the common unit
HalfCent == Pow2Mag(UnitExp - 1)

\* the binary64 that B plus the signed sum denotes
NumberOfSum(B, txns) ==
    LET e == ExactBalance(B, txns) IN NearestDoubleOfHundredths(e.neg, e.mag)

Folded == fn = "calculatedBalance"

IsScenario ==
    /\ args.opening_balance = Decimal(ScenarioOpening, 0)
    /\ args.txns = ScenarioDecimals

\* C1 as stated: the balance fetchAccounts computes is the number B plus the
\* signed sum of the amounts.
C1_BalanceIsSignedSum ==
    Folded => result.balance = NumberOfSum(args.opening_balance, args.txns)

\* C1 as amended: the computed balance is B plus the signed sum up to binary64
\* rounding: it is away from that number by no more than
\* (n + 2) * 2^-53 * (|B| + sum |amount|) for n signed transactions; with no
\* transactions it is exactly B, and in the scenario it is exactly 1200.
C1_BalanceIsSignedSumUpToRounding ==
    Folded =>
        /\ CmpMag(ErrorOf(result.balance,
                          ExactBalance(args.opening_balance, args.txns)),
                  RoundingBound(args.opening_balance, args.txns)) <= 0
        /\ args.txns = <<>> => result.balance = ParseDecimal(args.opening_balance)
        /\ IsScenario => result.balance = ParseFloat(120000)

\* C1's case: a fold of three transactions of both signs whose binary64 result
\* is not the signed sum, and is away from it by more than half a hundredth.
C1_Witness ==
    /\ Folded
    /\ Len(args.txns) = 3
    /\ \E i, j \in 1..3 : /\ args.txns[i].transaction_type \in Credits
                          /\ args.txns[j].transaction_type \in Debits
    /\ result.balance # NumberOfSum(args.opening_balance, args.txns)
    /\ CmpMag(ErrorOf(result.balance,
                      ExactBalance(args.opening_balance, args.txns)),
              HalfCent) > 0

\* the balance of the same rows in the order the ledger lists them
InListedOrder ==
    calculatedBalance(ParseDecimal(args.opening_balance),
                      DecimalsAsNumbers(args.txns))

\* how far apart the two balances are, in the common unit
ApartFromListed ==
    ExactDifference(InCommonUnit(result.balance), InCommonUnit(InListedOrder)).mag

\* B and every amount is a whole number, and |B| + sum |amount| is below 2^53:
\* every number the fold meets is a binary64
WholeAndSmall ==
    /\ args.opening_balance.hundredths % 100 = 0 \/ args.opening_balance.e10 >= 2
    /\ \A i \in 1..Len(args.txns) :
          \/ args.txns[i].amount.hundredths % 100 = 0
          \/ args.txns[i].amount.e10 >= 2
    /\ CmpMag(MagnitudeSum(args.opening_balance, args.txns),
              MulSmall(Pow2Mag(SigBits), 100)) < 0

\* C8 as stated: whatever the order the transactions are supplied in, the
\* computed balance is the same.
C8_OrderIndependent == Folded => result.balance = InListedOrder

\* C8 as amended: whatever the order the transactions are supplied in, the
\* computed balance is the same up to binary64 rounding: two orders give
\* balances no more than 2 * (n + 2) * 2^-53 * (|B| + sum |amount|) apart, and
\* the same balance when B and the amounts are whole numbers with
\* |B| + sum |amount| below 2^53.
C8_OrderIndependentUpToRounding ==
    Folded =>
        /\ CmpMag(ApartFromListed,
                  MulSmall(RoundingBound(args.opening_balance, args.txns), 2)) <= 0
        /\ WholeAndSmall => result.balance = InListedOrder

\* C8's case: three transactions supplied in another order than listed, giving
\* a balance more than a hundredth away from the one of the listed order.
C8_Witness ==
    /\ Folded
    /\ Len(args.txns) = 3
    /\ args.order # <<1, 2, 3>>
    /\ result.balance # InListedOrder
    /\ CmpMag(ApartFromListed, MulSmall(HalfCent, 2)) > 0

(***************************************************************************)
(* The classification table                                                *)
(***************************************************************************)
Labelled == fn = "getTransactionTypeLabel"

\* C7: each of the five types has its fixed label, and every other type string
\* is mapped to itself.
C7_LabelTableTotal ==
    Labelled =>
        /\ args.type = "partner_deposit" => result.label = "Partner Deposit"
        /\ args.type = "partner_withdrawal" => result.label = "Partner Withdrawal"
        /\ args.type = "expense" => result.label = "Expense"
        /\ args.type = "income" => result.label = "Income"
        /\ args.type = "adjustment" => result.label = "Adjustment"
        /\ args.type \notin TransactionTypes => result.label = args.type

(***************************************************************************)
(* The account statement                                                   *)
(***************************************************************************)
\* no call is in flight
Quiescent == calls = EmptyBag

\* the statement shows what the store holds now for its route id
StatementCurrent ==
    /\ StatementRendered
    /\ FirmAccountDetails.id \in DOMAIN firm_accounts
    /\ FirmAccountDetails.account
          = Some(AccountAsRead(firm_accounts[FirmAccountDetails.id]))
    /\ FirmAccountDetails.transactions \in SelectStatement(FirmAccountDetails.id)

\* 'Current Balance' as the statement renders it, in hundredths
ShownBalance == Denotes(ToFixed2(FirmAccountDetails.account[1].current_balance))

\* opening balance plus signed sum over the account's rows, in hundredths
LedgerBalance(id) == firm_accounts[id].opening_balance + SignedSum(LedgerOf(id))

\* C2: whenever the statement shows an account's current balance (no call in
\* flight, what is shown being what the store holds), the value shown is the
\* opening balance plus the signed sum over the account's transactions, not
\* the stored current_balance.
C2_ShownBalanceIsRecomputed ==
    (Quiescent /\ StatementCurrent) =>
        ShownBalance = LedgerBalance(FirmAccountDetails.id)

\* a delete made from the statement has taken effect in the store
DeleteTookEffect ==
    /\ settings.allowDelete
    /\ Len(firm_transactions) < Len(InitialTransactions)

\* C6: after a confirmed delete with allowDelete and the completed refetch,
\* the balance shown is the opening balance plus the signed sum over the
\* remaining transactions; 1400.00 after deleting the expense of the scenario.
C6_BalanceAfterDelete ==
    (Quiescent /\ StatementCurrent /\ DeleteTookEffect) =>
        /\ ShownBalance = LedgerBalance(FirmAccountDetails.id)
        /\ (\A i \in 1..Len(firm_transactions) : firm_transactions[i].id # 2)
               => ShownBalance = 140000

\* the update calls in flight
UpdateCalls == {c \in BagToSet(calls) : c.op = "update"}

\* C10: every firm transaction this program writes has a non-negative amount:
\* the body of every update sent, and every row of the store.
C10_WrittenAmountsNonNegative ==
    /\ \A c \in UpdateCalls : c.body[1].amount >= 0
    /\ \A i \in 1..Len(firm_transactions) : firm_transactions[i].amount >= 0

(***************************************************************************)
(* The permission gates                                                    *)
(***************************************************************************)
\* C3: while allowEdit is false, an invocation of edit on a transaction
\* produces the notification 'Edit permission denied' and changes nothing
\* else: it sends no call, opens no dialog, selects no transaction and leaves
\* the form alone; and whatever the user does, no update call on
\* firm_transactions is ever in flight, the edit dialog is never open and no
\* transaction is ever selected.
C3_EditGate ==
    [][~settings.allowEdit =>
          /\ EditInvoked =>
                /\ log' = <<"toast.error: Edit permission denied">>
                /\ calls' = calls
                /\ FirmAccountDetails' = FirmAccountDetails
                /\ EditFirmTransactionDialog' = EditFirmTransactionDialog
                /\ firm_transactions' = firm_transactions
          /\ \A c \in BagToSet(calls') : c.op # "update"
          /\ ~FirmAccountDetails'.editDialogOpen
          /\ FirmAccountDetails'.selectedTransaction = None
          /\ EditFirmTransactionDialog' = EditFirmTransactionDialog]_vars

\* C3's case: allowEdit is false and edit was invoked on a transaction of the
\* rendered statement: the notification is up, the dialog is closed, nothing
\* is selected and no update is in flight.
C3_Witness ==
    /\ ~settings.allowEdit
    /\ StatementRendered
    /\ Len(FirmAccountDetails.transactions) = 3
    /\ log = <<"toast.error: Edit permission denied">>
    /\ ~FirmAccountDetails.editDialogOpen
    /\ FirmAccountDetails.selectedTransaction = None
    /\ \A c \in BagToSet(calls) : c.op # "update"

\* C4: while allowDelete is false, an invocation of delete on a transaction
\* produces the notification 'Delete permission denied' and changes nothing
\* else: it does not ask for confirmation, sends no call, and leaves the
\* displayed transactions and account and the stored transactions as they
\* are; and whatever the user does, confirmation is never asked for, no
\* delete call is ever in flight and every stored transaction stays.
C4_DeleteGate ==
    [][~settings.allowDelete =>
          /\ DeleteInvoked =>
                /\ log' = <<"toast.error: Delete permission denied">>
                /\ calls' = calls
                /\ FirmAccountDetails' = FirmAccountDetails
                /\ firm_transactions' = firm_transactions
                /\ firm_accounts' = firm_accounts
          /\ log' # <<"confirm: Are you sure you want to delete this transaction?">>
          /\ \A c \in BagToSet(calls') : c.op # "delete"
          /\ Len(firm_transactions') = Len(InitialTransactions)
          /\ \A i \in 1..Len(firm_transactions') :
                firm_transactions'[i].id = InitialTransactions[i].id]_vars

\* C4's case: allowDelete is false and delete was invoked on a transaction of
\* the rendered statement: the notification is up, the three transactions of
\* the account are displayed and stored, and no delete is in flight.
C4_Witness ==
    /\ ~settings.allowDelete
    /\ StatementRendered
    /\ log = <<"toast.error: Delete permission denied">>
    /\ Len(FirmAccountDetails.transactions) = 3
    /\ FirmAccountDetails.account # None
    /\ Len(firm_transactions) = Len(InitialTransactions)
    /\ \A c \in BagToSet(calls) : c.op # "delete"

(***************************************************************************)
(* The account list                                                        *)
(***************************************************************************)
\* C9: with the stored accounts and transactions unchanged, a completed
\* refresh of the list shows the same current balance for every account as
\* the completed refresh before it.
C9_RefreshIdempotent ==
    (/\ firm_accounts = InitialAccounts
     /\ firm_transactions = InitialTransactions
     /\ Len(shown) = 2)
    => shown[1] = shown[2]

(***************************************************************************)
(* The partner statement                                                   *)
(***************************************************************************)
\* the positions of list at which the item has the id
PlacesOf(id, list) == {k \in 1..Len(list) : list[k].id = id}

\* C5: the step in which a fetchTransactions that got partner stream P and
\* firm stream F sets the statement: it has Len(P) + Len(F) items, every item
\* of P and of F is in it once with its date and amount, and the dates never
\* increase down the list; with P = [01-10] and F = [01-15] it is the item of
\* F and then the item of P.
C5_MergedStatement ==
    [][\A c \in BagToSet(calls) :
          (/\ c.op = "PartnerDetails.fetchTransactions"
           /\ c.stage = "done again"
           /\ ~c.error
           /\ calls' = Taken(c))
          => LET P    == c.body
                 F    == c.data
                 list == PartnerDetails'.transactions
             IN  /\ Len(list) = Len(P) + Len(F)
                 /\ \A i \in 1..Len(P) :
                       \E k \in 1..Len(list) :
                          /\ PlacesOf(P[i].id, list) = {k}
                          /\ list[k].payment_date = P[i].payment_date
                          /\ list[k].amount = P[i].amount
                 /\ \A i \in 1..Len(F) :
                       \E k \in 1..Len(list) :
                          /\ PlacesOf(F[i].id, list) = {k}
                          /\ list[k].payment_date = F[i].transaction_date
                          /\ list[k].amount = F[i].amount
                 /\ \A k, l \in 1..Len(list) :
                       k < l => list[k].payment_date >= list[l].payment_date
                 /\ (/\ Len(P) = 1 /\ P[1].payment_date = 10
                     /\ Len(F) = 1 /\ F[1].transaction_date = 15)
                       => /\ list[1].id = F[1].id
                          /\ list[2].id = P[1].id]_vars

\* C5's case: the statement of the scenario is shown, the firm item of 01-15
\* above the partner item of 01-10.
C5_Witness ==
    /\ Len(PartnerDetails.transactions) = 2
    /\ PartnerDetails.transactions[1].payment_mode = "bank"
    /\ PartnerDetails.transactions[1].mahajan_name = "Firm Account"
    /\ PartnerDetails.transactions[1].payment_date = 15
    /\ PartnerDetails.transactions[2].mahajan_name = "Seth"
    /\ PartnerDetails.transactions[2].payment_date = 10


(***************************************************************************)
(* Failures of the loaders                                                 *)
(***************************************************************************)
\* the loaders' calls
LoaderOps == {"fetchAccountDetails", "fetchTransactions", "fetchPartnerDetails",
              "PartnerDetails.fetchTransactions"}

LoadErrorToasts == {<<"toast.error: Failed to load account details">>,
                    <<"toast.error: Failed to load transactions">>,
                    <<"toast.error: Failed to load partner details">>}

\* this step hands the failed answer c to the loader that awaits it
FailedLoadDelivered(c) ==
    /\ c.op \in LoaderOps
    /\ c.stage \in {"done", "done again"}
    /\ c.error
    /\ calls' = Taken(c)

\* the partner page's statement as the store has it now, in each order the
\* store may return the streams
MergedNow(id) ==
    {MergedStatement(P, F) :
        P \in SelectPartnerStream(id), F \in SelectFirmStream(id)}

\* C11: when a fetch of a loader (account, partner, the account's
\* transactions, either stream of the partner statement) fails, the step that
\* handles the failure leaves the displayed account, partner and transaction
\* lists as they were, shows an error toast, and changes nothing of the pages
\* but the loading flag, which it may clear
C11_LoadFailureKeepsStale ==
    [][\A c \in BagToSet(calls) :
          FailedLoadDelivered(c) =>
              /\ log' \in LoadErrorToasts
              /\ FirmAccountDetails' \in
                    {FirmAccountDetails,
                     [FirmAccountDetails EXCEPT !.loading = FALSE]}
              /\ PartnerDetails' \in
                    {PartnerDetails, [PartnerDetails EXCEPT !.loading = FALSE]}
              /\ UNCHANGED <<EditFirmTransactionDialog, FirmAccounts>>]_vars

\* a refresh of the partner statement has just failed after the store
\* changed: the statement loaded before is still shown
C11_Witness ==
    /\ page = "PartnerDetails"
    /\ log = <<"toast.error: Failed to load transactions">>
    /\ PartnerDetails.partner # None
    /\ PartnerDetails.transactions # <<>>
    /\ PartnerDetails.transactions \notin MergedNow(PartnerDetails.id)


(***************************************************************************)
(* Failures of the writes                                                  *)
(***************************************************************************)
WriteOps == {"insert", "update", "delete"}

WriteErrorToasts == {<<"toast.error: Failed to send money">>,
                     <<"toast.error: Failed to update transaction">>,
                     <<"toast.error: Failed to delete transaction">>}

\* this step hands the failed answer c to the handler that awaits it
FailedWriteDelivered(c) ==
    /\ c.op \in WriteOps
    /\ c.stage = "done"
    /\ c.error
    /\ CopiesIn(c, calls') < CopiesIn(c, calls)

\* this step sends a write call, or the store handles one
WriteInFlight ==
    \E c \in BagToSet(calls') :
        /\ c.op \in WriteOps
        /\ CopiesIn(c, calls') > CopiesIn(c, calls)

\* what a failed write leaves on screen: the page, the dialogs' open state
\* and form contents; of the dialogs' state only loading changes, to false
KeptByFailedWrite ==
    /\ FirmAccountDetails' = FirmAccountDetails
    /\ EditFirmTransactionDialog' \in
          {EditFirmTransactionDialog,
           [EditFirmTransactionDialog EXCEPT !.loading = FALSE]}
    /\ SendMoneyDialog' \in
          {SendMoneyDialog, [SendMoneyDialog EXCEPT !.loading = FALSE]}

\* C12 as stated: a failed insert, update or delete is answered by an error
\* toast and no refetch, with the displayed transactions, account, dialog
\* open state and form contents unchanged; and no UI state changes before
\* the call resolves
C12_FailedWriteChangesNothing ==
    [][/\ \A c \in BagToSet(calls) :
             FailedWriteDelivered(c) =>
                 /\ log' \in WriteErrorToasts
                 /\ calls' = Taken(c)
                 /\ KeptByFailedWrite
       /\ WriteInFlight =>
             UNCHANGED <<FirmAccountDetails, EditFirmTransactionDialog,
                         SendMoneyDialog>>]_vars

\* C12 with the loading flag of the dialogs apart, which handleSubmit sets
\* before its await: while a write is sent and handled, nothing else of the
\* UI state changes
C12_FailedWriteChangesNothingButLoading ==
    [][/\ \A c \in BagToSet(calls) :
             FailedWriteDelivered(c) =>
                 /\ log' \in WriteErrorToasts
                 /\ calls' = Taken(c)
                 /\ KeptByFailedWrite
       /\ WriteInFlight =>
             /\ FirmAccountDetails' = FirmAccountDetails
             /\ EditFirmTransactionDialog' \in
                   {EditFirmTransactionDialog,
                    [EditFirmTransactionDialog EXCEPT !.loading = TRUE]}
             /\ SendMoneyDialog' \in
                   {SendMoneyDialog, [SendMoneyDialog EXCEPT !.loading = TRUE]}]_vars

\* an update has just failed: the edit dialog is still open with the amount
\* the user typed, and nothing is in flight
C12_Witness ==
    /\ log = <<"toast.error: Failed to update transaction">>
    /\ FirmAccountDetails.editDialogOpen
    /\ EditFirmTransactionDialog.formData.amount = <<-5000>>
    /\ ~EditFirmTransactionDialog.loading
    /\ calls = EmptyBag


(***************************************************************************)
(* Failures of any call                                                    *)
(***************************************************************************)
ListErrorToasts == {<<"toast.error: Failed to load firm accounts">>,
                    <<"toast.error: Failed to update account">>}

\* the call c has met a failure: its answer is an error, or one of the
\* per-account reads of a fetchAccounts was answered by one
MetFailure(c) ==
    \/ c.error
    \/ /\ c.op = "fetchAccounts"
       /\ c.stage = "reading"
       /\ \E i \in 1..Len(c.body) : c.body[i] # None /\ c.body[i][1].error

\* C13: the step in which a call that has met a failure ends tells the user
\* with an error toast, the per-account read of fetchAccounts included
C13_FailuresSurfaced ==
    [][\A c \in BagToSet(calls) :
          (MetFailure(c) /\ calls' = Taken(c)) => log' \in ListErrorToasts]_vars


(***************************************************************************)
(* Reloads after changes                                                   *)
(***************************************************************************)
\* a reload of account a's transactions is on its way: a fetchTransactions
\* that the store has yet to answer, or a write of the page that succeeded
\* and whose handler has yet to go on
ReloadOnItsWay(a, inFlight) ==
    \E c \in BagToSet(inFlight) :
        /\ c.id = a
        /\ \/ c.op = "fetchTransactions" /\ c.stage = "sent"
           \/ c.op \in WriteOps /\ c.stage = "done" /\ ~c.error

\* C14: a step that changes the transaction set of the account whose
\* statement is on screen leaves a reload of that account's transactions on
\* its way
C14_ChangesTriggerReload ==
    [][\A a \in AccountIds :
          (/\ page = "FirmAccountDetails"
           /\ FirmAccountDetails.id = a
           /\ FirmAccountDetails.effectRanFor = Some(a)
           /\ LedgerOf(a)' # LedgerOf(a))
          => ReloadOnItsWay(a, calls')]_vars


(***************************************************************************)
(* The partner page's channels                                             *)
(***************************************************************************)
\* this step takes the push c out of flight
PushTaken(c) ==
    /\ c.op = "postgres_changes"
    /\ CopiesIn(c, calls') < CopiesIn(c, calls)

\* the partner page is in the tree for partner id, its effects done
MountedFor(id) ==
    /\ page = "PartnerDetails"
    /\ PartnerDetails.id = id
    /\ PartnerDetails.effectRanFor = Some(id)

\* C15: while PartnerDetails is mounted for partner id X, the step in which
\* a change notification of partner_transactions or firm_transactions with
\* partner_id = X arrives starts one more fetchTransactions and one more
\* fetchPartnerDetails for X, and nothing else
C15_PushStartsRefresh ==
    [][\A c \in BagToSet(calls) :
          (PushTaken(c) /\ MountedFor(c.id)) =>
              /\ c.body[1] \in {"partner_transactions", "firm_transactions"}
              /\ calls' = Sent(Taken(c), {FetchPartnerTransactionsCall(c.id),
                                          FetchPartnerDetailsCall(c.id)})]_vars

\* a row was inserted while the rendered page showed partner p1, its push has
\* arrived, and the two fetches it started are all that is in flight
C15_Witness ==
    /\ PartnerRendered
    /\ MountedFor("p1")
    /\ Len(partner_transactions) + Len(firm_transactions)
          > Len(InitialTransactions)
    /\ calls = SetToBag({FetchPartnerTransactionsCall("p1"),
                         FetchPartnerDetailsCall("p1")})


\* the channels that are subscribed are the two of the partner the page is
\* mounted for, and none when the page is not in the tree
ChannelsOfMounted ==
    channels = IF page = "PartnerDetails"
                    /\ PartnerDetails.effectRanFor = Some(PartnerDetails.id)
               THEN Subscriptions(PartnerDetails.id)
               ELSE {}

\* C16: after every step, a change of the partner id and the page's leaving
\* the tree among them, the subscribed channels are the two of the partner
\* the page is mounted for; and once the page has left the tree no step sets
\* its state, and a push that arrives is dropped without running a callback
C16_ChannelsReleased ==
    [][/\ ChannelsOfMounted'
       /\ page # "PartnerDetails" =>
             /\ PartnerDetails' = PartnerDetails
             /\ \A c \in BagToSet(calls) :
                   (c.op = "postgres_changes"
                       /\ CopiesIn(c, calls') < CopiesIn(c, calls))
                   => calls' = Taken(c)]_vars

\* the page, having loaded partner p1, is now mounted for p0: the channels
\* are those of p0
C16_Witness ==
    /\ page = "PartnerDetails"
    /\ PartnerDetails.partner # None
    /\ PartnerDetails.id = "p0"
    /\ channels = Subscriptions("p0")


(***************************************************************************)
(* Refreshes in flight together                                            *)
(***************************************************************************)
\* this step hands the answer c, which is no error, to the code that awaits
\* it
AnswerDelivered(c) ==
    /\ ~c.error
    /\ c.stage \in {"done", "done again"}
    /\ CopiesIn(c, calls') < CopiesIn(c, calls)

\* C17: whatever else is in flight and whatever is shown, and whichever
\* refresh was started first, the step in which a fetchTransactions of the
\* partner page completes shows the statement that fetch read, and the step
\* in which a fetchPartnerDetails completes shows the partner it read: the
\* refresh that completes last is the one shown
C17_LastCompletedShown ==
    [][\A c \in BagToSet(calls) :
          (AnswerDelivered(c) /\ page = "PartnerDetails") =>
              /\ (c.op = "PartnerDetails.fetchTransactions"
                     /\ c.stage = "done again")
                 => PartnerDetails'.transactions = MergedStatement(c.body, c.data)
              /\ c.op = "fetchPartnerDetails"
                 => PartnerDetails'.partner = c.data]_vars

\* two refreshes were in flight together: the one that read the store after
\* a row was inserted has completed and is shown, and the answer of the one
\* that read it before is still to be handed over
C17_Witness ==
    \E c \in BagToSet(calls) :
        /\ c.op = "PartnerDetails.fetchTransactions"
        /\ c.stage = "done again"
        /\ ~c.error
        /\ MountedFor(c.id)
        /\ PartnerDetails.transactions # <<>>
        /\ PartnerDetails.transactions \in MergedNow(c.id)
        /\ MergedStatement(c.body, c.data) \notin MergedNow(c.id)


(***************************************************************************)
(* The order of the loaded lists                                           *)
(***************************************************************************)
\* created_at of the stored row an item of the partner statement was made
\* from
CreatedAtOf(item) ==
    LET stored == SelectSeq(partner_transactions \o firm_transactions,
                            LAMBDA row : row.id = item.id)
    IN  stored[1].created_at

\* the list is in the order of the keys, greatest first
InOrderOf(list, KeyOf(_)) ==
    \A k, l \in 1..Len(list) :
        k < l => (KeyOf(list[k]) = KeyOf(list[l]) \/ KeyBefore(KeyOf(list[k]), KeyOf(list[l])))

StatementKey(t) == <<t.transaction_date, t.created_at>>

PartnerStatementKey(item) == <<item.payment_date, CreatedAtOf(item)>>

\* C18: the transactions either detail view shows are ordered by date, latest
\* first, and those of equal date by creation timestamp, latest first
C18_LoaderOrdering ==
    /\ InOrderOf(FirmAccountDetails.transactions, StatementKey)
    /\ InOrderOf(PartnerDetails.transactions, PartnerStatementKey)


(***************************************************************************)
(* Firm transactions in the partner statement                              *)
(***************************************************************************)
\* the notes of the claim for a stored firm transaction: the type's label,
\* the description or 'No description', the account's name
NotesWithLabel(row) ==
    getTransactionTypeLabel(row.transaction_type)
        \o " - "
        \o (IF row.description = NULL THEN "No description" ELSE row.description)
        \o " ("
        \o firm_accounts[row.firm_account_id].account_name
        \o ")"

\* C19: every item of the partner statement that was made from a firm
\* transaction has payment mode 'bank', counterparty 'Firm Account', the
\* row's id and amount, the row's transaction date as its date, and as notes
\* the type's label, the description or 'No description', and the name of
\* the account
C19_FirmNormalization ==
    \A k \in 1..Len(PartnerDetails.transactions),
       i \in 1..Len(firm_transactions) :
        LET item == PartnerDetails.transactions[k]
            row  == firm_transactions[i]
        IN  item.id = row.id =>
                /\ item.payment_mode = "bank"
                /\ item.mahajan_name = "Firm Account"
                /\ item.amount = ParseFloat(row.amount)
                /\ item.payment_date = row.transaction_date
                /\ item.notes = NotesWithLabel(row)


(***************************************************************************)
(* Ids that no row has                                                     *)
(***************************************************************************)
\* the statement page renders 'Account not found'
AccountNotFound == ~FirmAccountDetails.loading /\ FirmAccountDetails.account = None

\* the partner page renders 'Partner not found'
PartnerNotFound == ~PartnerDetails.loading /\ PartnerDetails.partner = None

\* C20: when the id the rendered view is asked for has no row, and the loads
\* the view started are complete, the view renders 'not found', also when it
\* had loaded another entity before the id changed
C20_NotFound ==
    Quiescent =>
        /\ (/\ page = "FirmAccountDetails"
            /\ FirmAccountDetails.effectRanFor = Some(FirmAccountDetails.id)
            /\ FirmAccountDetails.id \notin DOMAIN firm_accounts)
           => AccountNotFound
        /\ (/\ page = "PartnerDetails"
            /\ PartnerDetails.effectRanFor = Some(PartnerDetails.id)
            /\ PartnerDetails.id \notin DOMAIN partners)
           => PartnerNotFound


(***************************************************************************)
(* Disabling an account                                                    *)
(***************************************************************************)
\* the balances a fold of the account's stored transactions can give, the
\* select having no order clause
FoldsOfLedger(account) ==
    {calculatedBalance(account.opening_balance,
                       AsNumbers(Permuted(LedgerOf(account.id), p))) :
        p \in Orders(Len(LedgerOf(account.id)))}

\* this step is the update of a toggleAccountStatus for account a
ToggleServedFor(a) ==
    \E c \in BagToSet(calls) :
        /\ c.op = "toggleAccountStatus"
        /\ c.id = a
        /\ c.stage = "sent"
        /\ CopiesIn(c, calls') < CopiesIn(c, calls)

\* C21: no step of the list page deletes an account row or changes a firm
\* transaction; a step changes an account row only as the update of a
\* toggleAccountStatus for that account, and then only its is_active; and a
\* refresh that completes on the rendered page shows every account it read,
\* the inactive ones with the fold of their stored transactions (where the
\* read of them did not fail)
C21_SoftDisableFrame ==
    [][/\ DOMAIN firm_accounts' = DOMAIN firm_accounts
       /\ firm_transactions' = firm_transactions
       /\ \A a \in DOMAIN firm_accounts :
             /\ [firm_accounts'[a] EXCEPT !.is_active = firm_accounts[a].is_active]
                   = firm_accounts[a]
             /\ firm_accounts'[a] # firm_accounts[a] => ToggleServedFor(a)
       /\ \A c \in BagToSet(calls) :
             (/\ c.op = "fetchAccounts"
              /\ c.stage = "reading"
              /\ calls' = Taken(c)
              /\ Mounted(c, "FirmAccounts"))
             => /\ Len(FirmAccounts'.accounts) = Len(c.data)
                /\ \A i \in 1..Len(c.data) :
                      (~c.data[i].is_active /\ ~c.body[i][1].error)
                      => /\ FirmAccounts'.accounts[i].id = c.data[i].id
                         /\ FirmAccounts'.accounts[i].current_balance
                               \in FoldsOfLedger(c.data[i])]_vars

\* the list shows an account that is stored inactive as inactive, with a
\* balance its transactions have moved from the opening balance, which is the
\* one it was created with
C21_Witness ==
    /\ Quiescent
    /\ \E i \in 1..Len(FirmAccounts.accounts) :
          LET shownRow == FirmAccounts.accounts[i]
          IN  /\ ~shownRow.is_active
              /\ ~firm_accounts[shownRow.id].is_active
              /\ firm_accounts[shownRow.id].opening_balance
                    = InitialAccounts[shownRow.id].opening_balance
              /\ shownRow.current_balance # shownRow.opening_balance
              /\ shownRow.current_balance \in FoldsOfLedger(shownRow)


(***************************************************************************)
(* The partner reference of money sent                                     *)
(***************************************************************************)
\* the ids of the rows of a list
IdsOf(list) == {list[i].id : i \in 1..Len(list)}

\* the inserts of the send dialog this step sends
InsertsSent ==
    {c \in BagToSet(calls') :
        /\ c.op = "insert"
        /\ c.stage = "sent"
        /\ CopiesIn(c, calls') > CopiesIn(c, calls)}

\* C22: a step of the send dialog that sends an insert does so with a
\* recipient and an amount in the form, with partner_id null for a mahajan
\* out of the mahajans list and with partner_id the selected id, one of the
\* partners list, for a partner; the recipient in the form is always empty or
\* out of the list of the form's recipient type; a submit without a
\* recipient or without an amount notifies, sends nothing, stores nothing and
\* leaves the dialog as it is; and a row that enters firm_transactions has
\* partner_id null or a partner's id
C22_PartnerLinkage ==
    [][/\ (/\ sendHandleSubmit
           /\ \/ SendMoneyDialog.formData.recipient_id = ""
              \/ SendMoneyDialog.formData.amount = <<>>) =>
             /\ log' = <<"toast.error: Please fill all required fields">>
             /\ calls' = calls
             /\ firm_transactions' = firm_transactions
             /\ SendMoneyDialog' = SendMoneyDialog
       /\ \A c \in InsertsSent :
             LET formData == SendMoneyDialog.formData
             IN  /\ formData.recipient_id # ""
                 /\ formData.amount # <<>>
                 /\ formData.recipient_type = "mahajan" =>
                       /\ c.body[1].partner_id = NULL
                       /\ formData.recipient_id \in IdsOf(SendMoneyDialog.mahajans)
                 /\ formData.recipient_type = "partner" =>
                       /\ c.body[1].partner_id = formData.recipient_id
                       /\ c.body[1].partner_id \in IdsOf(SendMoneyDialog.partners)
       /\ LET formData == SendMoneyDialog'.formData
          IN  formData.recipient_id # "" =>
                 formData.recipient_id \in
                    IdsOf(IF formData.recipient_type = "partner"
                          THEN SendMoneyDialog'.partners
                          ELSE SendMoneyDialog'.mahajans)
       /\ log' = <<"toast.error: Please fill all required fields">> =>
             /\ calls' = calls
             /\ firm_transactions' = firm_transactions
       /\ Len(firm_transactions') > Len(firm_transactions) =>
             firm_transactions'[Len(firm_transactions')].partner_id
                \in {NULL} \cup DOMAIN partners]_vars

\* the dialog has sent money to a mahajan: the row is stored without a
\* partner, and the dialog is closed with its form reset
C22_Witness ==
    /\ page = "SendMoneyDialog"
    /\ Quiescent
    /\ ~SendMoneyDialog.open
    /\ SendMoneyDialog.formData = SendForm
    /\ Len(firm_transactions) > Len(InitialTransactions)
    /\ LET row == firm_transactions[Len(firm_transactions)]
       IN  /\ row.partner_id = NULL
           /\ row.firm_account_id = firmAccountId
           /\ row.description = "Payment to mahajan: Seth from " \o firmAccountName


(***************************************************************************)
(* The sign shown and the sign folded                                      *)
(***************************************************************************)
\* what the row does to a balance of zero when fetchAccounts folds it
ContributionOf(txns) == calculatedBalance(Zero, DecimalsAsNumbers(txns))

\* C23: the amount cell shows '+' for a row only if the fold adds the row's
\* amount to the balance, and '-' only if the fold subtracts it; a row the
\* fold leaves out is shown with neither
C23_SignConsistency ==
    fn = "amountCell" =>
        /\ result.label = "+" =>
              ContributionOf(args.txns) # Zero /\ ~ContributionOf(args.txns).neg
        /\ result.label = "-" => ContributionOf(args.txns).neg


(***************************************************************************)
(* The statement after a change of the route id                            *)
(***************************************************************************)
\* C24: with the effect run for the current route id and no fetch of the
\* statement page in flight, the account shown, if any, is the one of the
\* route id, and every transaction shown is one of that account
C24_ShownBelongsToRoute ==
    (/\ page = "FirmAccountDetails"
     /\ FirmAccountDetails.effectRanFor = Some(FirmAccountDetails.id)
     /\ Quiescent)
    => /\ FirmAccountDetails.account # None =>
             FirmAccountDetails.account[1].id = FirmAccountDetails.id
       /\ \A i \in 1..Len(FirmAccountDetails.transactions) :
             FirmAccountDetails.transactions[i].firm_account_id
                = FirmAccountDetails.id


(***************************************************************************)
(* Toggles in a row                                                        *)
(***************************************************************************)
\* this step is the update of a toggleAccountStatus for account a, and the
\* update succeeds
ToggleSucceededFor(a) ==
    \E c \in BagToSet(calls) :
        /\ c.op = "toggleAccountStatus"
        /\ c.id = a
        /\ c.stage = "sent"
        /\ calls' = Sent(Taken(c), {Answered(c, FALSE, <<>>)})

\* C25: the step in which the update of a toggleAccountStatus succeeds flips
\* the stored is_active of the account, whatever else is in flight
C25_ToggleFlips ==
    [][\A a \in DOMAIN firm_accounts :
          ToggleSucceededFor(a) =>
              firm_accounts'[a].is_active = ~firm_accounts[a].is_active]_vars


(***************************************************************************)
(* The enquiries displayed                                                 *)
(***************************************************************************)
\* the text occurs in the column, letters compared without regard to case
OccursIn(text, column) ==
    /\ column # None
    /\ \E from \in 1..Len(column[1]), to \in 0..Len(column[1]) :
          toLowerCase(SubSeq(column[1], from, to)) = toLowerCase(text)

\* the enquiry matches the search term and the status filter
MatchesFilters(e, searchTerm, statusFilter) ==
    /\ searchTerm # <<>> =>
          \/ OccursIn(searchTerm, e.child_name)
          \/ OccursIn(searchTerm, e.parents_name)
          \/ OccursIn(searchTerm, e.mobile_no)
    /\ statusFilter # "all" => e.status = statusFilter

\* C26: with no effect of the enquiries page due, the list displayed is the
\* loaded enquiries that match the search term and the status filter, in
\* loaded order; so after a refetch the list is not the unfiltered one unless
\* every loaded enquiry matches
C26_DisplayedIsFiltered ==
    (page = "AdmissionEnquiry" /\ AdmissionEnquiry.effectsDue = {}) =>
        AdmissionEnquiry.filteredEnquiries =
            SelectSeq(AdmissionEnquiry.enquiries,
                      LAMBDA e : MatchesFilters(e, AdmissionEnquiry.searchTerm,
                                                AdmissionEnquiry.statusFilter))

\* with a search term and a status filter set, an enquiry was deleted and the
\* list fetched again: some of the loaded enquiries are displayed, not all
C26_Witness ==
    /\ EnquiriesRendered
    /\ Quiescent
    /\ writes > 0
    /\ Len(AdmissionEnquiry.enquiries) < Len(SelectSeq(InitialEnquiries,
                                             LAMBDA e : e.user_id = user.id))
    /\ AdmissionEnquiry.searchTerm # <<>>
    /\ AdmissionEnquiry.statusFilter # "all"
    /\ AdmissionEnquiry.filteredEnquiries # <<>>
    /\ Len(AdmissionEnquiry.filteredEnquiries) < Len(AdmissionEnquiry.enquiries)

====
